---- MODULE Spec2Model ----
(***************************************************************************)
(* A model of the hex utility's memory image: Segment (src/src/segment.py) *)
(* and Segments (src/src/segments.py), the collection that hex.main        *)
(* (src/src/hex.py) fills from its inputs and then transforms with fill    *)
(* and remove.                                                             *)
(*                                                                         *)
(* A Segment is a record [addrlo, data]: data is the sequence of its bytes *)
(* and addrlo the address of data[1].  Python objects are mutable and the  *)
(* code relies on it, so the operators return the state an object is left  *)
(* in together with the exception raised, if any.                          *)
(***************************************************************************)
EXTENDS Integers, Sequences, FiniteSets

(***************************************************************************)
(* Bounds.  The 32-bit address space [0, 2^32) of _ADDR32_RANGE is scaled  *)
(* to [0, AddrLimit): _validate only compares the last address with the    *)
(* limit, so the scaled space has the same bottom, interior and top.       *)
(***************************************************************************)
AddrLimit == 7
MaxLen == 3
MaxPattern == 2

VARIABLES
    segs,           \* Segments._segments of the image: a sequence of Segments
    pc,             \* position in the run
    err,            \* the exception the last operation raised, NoError if none
    call,           \* the operation called last, with the arguments a property reads
    pre,            \* segs and self as they were when that operation was called
    self,           \* the Segment that Segment.add is called on
    start_address,  \* Memory._start_address of the image, None if not set
    header,         \* Memory._header of the image: a sequence of byte strings
    ret,            \* what the last operation returned or wrote
    origin,         \* the address, as <<high word, low word>>, that address 0 of
                    \* the model stands for when an address is written to or read
                    \* from a file
    merged          \* the inputs that Memory.add merged into the image so far: of
                    \* each its start address and the last_start it was merged with

vars == <<segs, pc, err, call, pre, self, start_address, header, ret, origin, merged>>

\* the part of the state that the operations of Segment and Segments leave alone
memvars == <<start_address, header, ret, origin, merged>>

\* Python's None, where an address is expected
None == <<>>

\* Memory.__init__ without a source, and nothing returned yet
NoMemory ==
    /\ start_address = None
    /\ header = <<>>
    /\ ret = <<>>
    /\ origin = <<0, 0>>
    /\ merged = <<>>

------------------------------------------------------------------------------
(* Python values *)

\* s[lo:hi]; SliceIndex is the index normalisation of a slice bound: negative
\* counts from the end
Slice(s, lo, hi) ==
    LET SliceIndex(i, n) ==
            IF i < 0 THEN (IF n + i < 0 THEN 0 ELSE n + i)
            ELSE IF i > n THEN n ELSE i
        a == SliceIndex(lo, Len(s))
        b == SliceIndex(hi, Len(s))
    IN  IF a >= b THEN <<>> ELSE SubSeq(s, a + 1, b)

\* s[lo:]
SliceFrom(s, lo) == Slice(s, lo, Len(s))

\* s[:hi]
SliceTo(s, hi) == Slice(s, 0, hi)

\* s * n
RECURSIVE Repeat(_, _)
Repeat(s, n) == IF n <= 0 THEN <<>> ELSE s \o Repeat(s, n - 1)

\* int(a / b) for b > 0: true division truncated toward zero
TruncDiv(a, b) == IF a >= 0 THEN a \div b ELSE -((-a) \div b)

------------------------------------------------------------------------------
(* Segment *)

NoError == [name |-> "none", address |-> -1, data_old |-> -1, data_new |-> -1]
ValueError == [name |-> "ValueError", address |-> -1, data_old |-> -1, data_new |-> -1]
NonSequentialDataError ==
    [name |-> "NonSequentialDataError", address |-> -1, data_old |-> -1, data_new |-> -1]
DataCollisionError(address, data_old, data_new) ==
    [name |-> "DataCollisionError", address |-> address,
     data_old |-> data_old, data_new |-> data_new]

\* _validate that takes the end address for the address of the last byte
ValidateEndAddress(seg) ==
    seg.addrlo >= 0 /\ seg.addrlo + Len(seg.data) < AddrLimit

\* _validate: TRUE when it returns, FALSE when it raises ValueError.
\* addrlast.bit_length() > 32 is addrlast >= 2^32, here AddrLimit.
Validate(seg) ==
    LET datalen == Len(seg.data)
        addrlast == seg.addrlo + (IF datalen > 0 THEN datalen - 1 ELSE 0)
    IN  seg.addrlo >= 0 /\ addrlast < AddrLimit

\* Segment(data, addrlo): the object built, and whether __init__ returned
NewSegment(data, a) ==
    LET s0 == [addrlo |-> a, data |-> <<>>]
        s1 == [addrlo |-> a, data |-> data]
    IN  IF ~Validate(s0) THEN [seg |-> s0, err |-> ValueError]
        ELSE IF ~Validate(s1) THEN [seg |-> s1, err |-> ValueError]
        ELSE [seg |-> s1, err |-> NoError]

\* Segment(): no data at address 0
EmptySegment == [addrlo |-> 0, data |-> <<>>]

addrhi(seg) == seg.addrlo + Len(seg.data)

size(seg) == Len(seg.data)

\* the data setter: assigns, then validates
SetData(seg, value) ==
    LET s == [seg EXCEPT !.data = value]
    IN  [seg |-> s, err |-> IF Validate(s) THEN NoError ELSE ValueError]

\* the addrlo setter: assigns, then validates
SetAddrlo(seg, value) ==
    LET s == [seg EXCEPT !.addrlo = value]
    IN  [seg |-> s, err |-> IF Validate(s) THEN NoError ELSE ValueError]

\* isadjacent with the end address taken one too high
isadjacentOffByOne(seg, segment) ==
    segment.addrlo = addrhi(seg) + 1 \/ seg.addrlo = addrhi(segment) + 1

isadjacent(seg, segment) ==
    segment.addrlo = addrhi(seg) \/ seg.addrlo = addrhi(segment)

overlaps(seg, segment) ==
    segment.addrlo < addrhi(seg) /\ seg.addrlo < addrhi(segment)

Max(a, b) == IF a >= b THEN a ELSE b
Min(a, b) == IF a <= b THEN a ELSE b

subsegment(seg, lo, hi) ==
    LET offsetlo == IF lo < seg.addrlo THEN 0 ELSE lo - seg.addrlo
        offsethi == IF hi < seg.addrlo THEN 0
                    ELSE IF hi < addrhi(seg) THEN hi - seg.addrlo
                    ELSE size(seg)
    IN  IF offsethi <= offsetlo THEN EmptySegment
        ELSE NewSegment(Slice(seg.data, offsetlo, offsethi), Max(lo, seg.addrlo)).seg

\* _conflicting_data with the two bytes of the report exchanged
ConflictingDataSwapped(seg, segment) ==
    LET lo == Max(seg.addrlo, segment.addrlo)
        hi == Min(addrhi(seg), addrhi(segment))
        local == subsegment(seg, lo, hi).data
        remote == subsegment(segment, lo, hi).data
        differ == {i \in 1..Len(local) : local[i] # remote[i]}
    IN  IF differ = {} THEN [found |-> FALSE, err |-> NoError]
        ELSE LET index == CHOOSE i \in differ : \A j \in differ : i <= j
             IN  [found |-> TRUE,
                  err |-> DataCollisionError(lo + index - 1, remote[index], local[index])]

\* _conflicting_data: found is FALSE for None
ConflictingData(seg, segment) ==
    LET lo == Max(seg.addrlo, segment.addrlo)
        hi == Min(addrhi(seg), addrhi(segment))
        local == subsegment(seg, lo, hi).data
        remote == subsegment(segment, lo, hi).data
        differ == {i \in 1..Len(local) : local[i] # remote[i]}
    IN  IF differ = {} THEN [found |-> FALSE, err |-> NoError]
        ELSE LET index == CHOOSE i \in differ : \A j \in differ : i <= j
             IN  [found |-> TRUE,
                  err |-> DataCollisionError(lo + index - 1, local[index], remote[index])]

\* Segment.add that keeps the bytes of seg under segment when segment starts
\* inside seg, inserting segment's bytes in front of them
SegmentAddInserting(seg, segment, overwrite) ==
    IF overlaps(seg, segment) THEN
        LET conflict == ConflictingData(seg, segment)
        IN  IF ~overwrite /\ conflict.found THEN [seg |-> seg, err |-> conflict.err]
            ELSE IF seg.addrlo <= segment.addrlo THEN
                SetData(seg, SliceTo(seg.data, segment.addrlo - seg.addrlo)
                             \o segment.data
                             \o SliceFrom(seg.data, segment.addrlo - seg.addrlo))
            ELSE
                LET r == SetData(seg, segment.data
                                      \o SliceFrom(seg.data, addrhi(segment) - seg.addrlo))
                IN  IF r.err # NoError THEN r ELSE SetAddrlo(r.seg, segment.addrlo)
    ELSE IF isadjacent(seg, segment) THEN
        IF seg.addrlo < segment.addrlo THEN SetData(seg, seg.data \o segment.data)
        ELSE
            LET r == SetAddrlo(seg, segment.addrlo)
            IN  IF r.err # NoError THEN r ELSE SetData(r.seg, segment.data \o seg.data)
    ELSE [seg |-> seg, err |-> NonSequentialDataError]

\* Segment.add(segment, overwrite) called on seg: the state seg is left in, and
\* the exception raised
SegmentAdd(seg, segment, overwrite) ==
    IF overlaps(seg, segment) THEN
        LET conflict == ConflictingData(seg, segment)
        IN  IF ~overwrite /\ conflict.found THEN [seg |-> seg, err |-> conflict.err]
            ELSE IF seg.addrlo <= segment.addrlo THEN
                SetData(seg, SliceTo(seg.data, segment.addrlo - seg.addrlo)
                             \o segment.data
                             \o SliceFrom(seg.data, addrhi(segment) - seg.addrlo))
            ELSE
                LET r == SetData(seg, segment.data
                                      \o SliceFrom(seg.data, addrhi(segment) - seg.addrlo))
                IN  IF r.err # NoError THEN r ELSE SetAddrlo(r.seg, segment.addrlo)
    ELSE IF isadjacent(seg, segment) THEN
        IF seg.addrlo < segment.addrlo THEN SetData(seg, seg.data \o segment.data)
        ELSE
            LET r == SetAddrlo(seg, segment.addrlo)
            IN  IF r.err # NoError THEN r ELSE SetData(r.seg, segment.data \o seg.data)
    ELSE [seg |-> seg, err |-> NonSequentialDataError]

------------------------------------------------------------------------------
(* Segments *)

SEGMENTS_OVERLAP == -1
SEGMENTS_ARE_ADJACENT == 0
SEGMENTS_HAVE_GAP == 1

\* _compare_segments without the test for adjacency
CompareSegmentsOverlapOnly(seg1, seg2) ==
    IF seg1.addrlo < addrhi(seg2) /\ seg2.addrlo < addrhi(seg1) THEN SEGMENTS_OVERLAP
    ELSE SEGMENTS_HAVE_GAP

\* _compare_segments
CompareSegments(seg1, seg2) ==
    IF seg1.addrlo = addrhi(seg2) \/ seg2.addrlo = addrhi(seg1) THEN SEGMENTS_ARE_ADJACENT
    ELSE IF seg1.addrlo < addrhi(seg2) /\ seg2.addrlo < addrhi(seg1) THEN SEGMENTS_OVERLAP
    ELSE SEGMENTS_HAVE_GAP

\* list.remove(list[i]) and list.insert(i - 1, x), for 1-based i
RemoveAt(list, i) == SubSeq(list, 1, i - 1) \o SubSeq(list, i + 1, Len(list))
InsertAt(list, i, x) == SubSeq(list, 1, i - 1) \o <<x>> \o SubSeq(list, i, Len(list))

\* list.sort(key=lambda x: x.addrlo): stable, ascending
RECURSIVE SortByAddrlo(_)
SortByAddrlo(list) ==
    IF Len(list) <= 1 THEN list
    ELSE LET sorted == SortByAddrlo(SubSeq(list, 1, Len(list) - 1))
             x == list[Len(list)]
             before == {i \in 1..Len(sorted) : sorted[i].addrlo <= x.addrlo}
         IN  InsertAt(sorted, Cardinality(before) + 1, x)

\* The loop of _join_connected_segments over reversed(self._segments), about to
\* visit list[i]: removing list[i] leaves list[1..i-1], which the reverse iterator
\* visits next, in place.  seg.add mutates the stored object seg, which then
\* becomes the segment carried on; touched lists the objects mutated so far, each
\* as seg.add left it.  JoinAfter is the loop body after seg.add(segment,
\* overwrite) returned or raised r, with seg already removed from the list.
RECURSIVE JoinFrom(_, _, _, _, _), JoinAfter(_, _, _, _, _, _)
JoinFrom(list, i, segment, overwrite, touched) ==
    IF i = 0 THEN [segs |-> list, segment |-> segment, err |-> NoError, touched |-> touched]
    ELSE IF CompareSegments(list[i], segment) # SEGMENTS_HAVE_GAP
    THEN JoinAfter(RemoveAt(list, i), i, segment, overwrite, touched,
                   SegmentAdd(list[i], segment, overwrite))
    ELSE JoinFrom(list, i - 1, segment, overwrite, touched)

JoinAfter(removed, i, segment, overwrite, touched, r) ==
    IF r.err # NoError
    THEN [segs |-> removed, segment |-> segment, err |-> r.err,
          touched |-> Append(touched, r.seg)]
    ELSE JoinFrom(removed, i - 1, r.seg, overwrite, Append(touched, r.seg))

\* _join_connected_segments that joins nothing
JoinConnectedSegmentsNone(list, segment, overwrite) ==
    [segs |-> list, segment |-> segment, err |-> NoError, touched |-> <<>>]

JoinConnectedSegments(list, segment, overwrite) ==
    JoinFrom(list, Len(list), segment, overwrite, <<>>)

InsertDisconnectedSegment(list, segment) ==
    LET above == {i \in 1..Len(list) : segment.addrlo < list[i].addrlo}
    IN  IF above = {} THEN Append(list, segment)
        ELSE InsertAt(list, CHOOSE i \in above : \A j \in above : i <= j, segment)

\* The loop of Segments.add over segments[k..]: zero-size segments are skipped,
\* an exception leaves the list as _join_connected_segments left it.  AddAfter
\* is the loop body after _join_connected_segments returned or raised j.
RECURSIVE AddFrom(_, _, _, _, _), AddAfter(_, _, _, _, _)
AddFrom(list, segments, k, overwrite, touched) ==
    IF k > Len(segments) THEN [segs |-> list, err |-> NoError, touched |-> touched]
    ELSE IF size(segments[k]) = 0 THEN AddFrom(list, segments, k + 1, overwrite, touched)
    ELSE AddAfter(segments, k, overwrite, touched,
                  JoinConnectedSegments(list, segments[k], overwrite))

AddAfter(segments, k, overwrite, touched, j) ==
    IF j.err # NoError
    THEN [segs |-> j.segs, err |-> j.err, touched |-> touched \o j.touched]
    ELSE AddFrom(InsertDisconnectedSegment(j.segs, j.segment), segments, k + 1,
                 overwrite, touched \o j.touched)

\* Segments.add(segments, overwrite) on the list self._segments, segments a list
SegmentsAdd(list, segments, overwrite) ==
    AddFrom(SortByAddrlo(list), segments, 1, overwrite, <<>>)

\* The state of object obj after an add that returned r: where it is in the list,
\* else as the join left it, else untouched
Current(obj, r) ==
    LET inlist == {i \in 1..Len(r.segs) : r.segs[i].id = obj.id}
        intouched == {i \in 1..Len(r.touched) : r.touched[i].id = obj.id}
    IN  IF inlist # {} THEN r.segs[CHOOSE i \in inlist : TRUE]
        ELSE IF intouched # {} THEN r.touched[CHOOSE i \in intouched : TRUE]
        ELSE obj

\* A Segment object with the number id
Numbered(seg, id) == [addrlo |-> seg.addrlo, data |-> seg.data, id |-> id]

\* The loop of Segments.fill: itertools.pairwise holds the object seglo it
\* returned last and takes seghi from a list iterator whose next index is idx,
\* over the list that self.add mutates in place.  FillGap is the loop body once
\* Segment(gapdata[:gap_width], seglo.addrhi) returned or raised gap, FillAfter
\* once self.add(gap) returned or raised r.
RECURSIVE FillFrom(_, _, _, _, _), FillGap(_, _, _, _, _), FillAfter(_, _, _, _, _)
FillFrom(list, idx, seglo, fill, nextid) ==
    IF idx > Len(list) THEN [segs |-> list, err |-> NoError]
    ELSE LET gap_width == list[idx].addrlo - addrhi(seglo)
             fill_repetitions == TruncDiv(gap_width, Len(fill)) + 1
             gapdata == Repeat(fill, fill_repetitions)
         IN  FillGap(list, idx, fill, nextid,
                     NewSegment(SliceTo(gapdata, gap_width), addrhi(seglo)))

FillGap(list, idx, fill, nextid, gap) ==
    IF gap.err # NoError THEN [segs |-> list, err |-> gap.err]
    ELSE FillAfter(idx, list[idx], fill, nextid,
                   SegmentsAdd(list, <<Numbered(gap.seg, nextid)>>, FALSE))

FillAfter(idx, seghi, fill, nextid, r) ==
    IF r.err # NoError THEN [segs |-> r.segs, err |-> r.err]
    ELSE FillFrom(r.segs, idx + 1, Current(seghi, r), fill, nextid + 1)

\* Segments.fill(fill) on the list self._segments, fill not empty.  The objects
\* of the list are numbered (Tag), so that an object held by an iterator can be
\* followed through the mutations of add, and the numbers are dropped from the
\* result (Untag).
SegmentsFill(list, fill) ==
    LET Tag(l) == [i \in 1..Len(l) |-> Numbered(l[i], i)]
        Untag(l) == [i \in 1..Len(l) |-> [addrlo |-> l[i].addrlo, data |-> l[i].data]]
        FillResult(r) == [segs |-> Untag(r.segs), err |-> r.err]
    IN  IF Len(list) = 0 THEN [segs |-> list, err |-> NoError]
        ELSE FillResult(FillFrom(Tag(list), 2, Numbered(list[1], 1), fill, Len(list) + 1))

\* bool(subseg): Segment defines neither __bool__ nor __len__, every object is true
Truth(subseg) == TRUE

\* The loop body of Segments.remove with the window taken to include addrhi
RemoveKeepersInclusive(seg, lo, hi) ==
    IF lo <= seg.addrlo /\ addrhi(seg) <= hi THEN <<>>
    ELSE IF addrhi(seg) <= lo \/ hi <= seg.addrlo THEN <<seg>>
    ELSE LET segrange == seg.addrlo .. (addrhi(seg) - 1)
             left == subsegment(seg, seg.addrlo, lo)
             right == subsegment(seg, hi + 1, addrhi(seg))
         IN  (IF lo \in segrange /\ Truth(left) THEN <<left>> ELSE <<>>)
             \o (IF hi \in segrange /\ Truth(right) THEN <<right>> ELSE <<>>)

\* What the loop body of Segments.remove appends to keepers for seg
RemoveKeepers(seg, lo, hi) ==
    IF lo <= seg.addrlo /\ addrhi(seg) <= hi THEN <<>>
    ELSE IF addrhi(seg) <= lo \/ hi <= seg.addrlo THEN <<seg>>
    ELSE LET segrange == seg.addrlo .. (addrhi(seg) - 1)
             left == subsegment(seg, seg.addrlo, lo)
             right == subsegment(seg, hi, addrhi(seg))
         IN  (IF lo \in segrange /\ Truth(left) THEN <<left>> ELSE <<>>)
             \o (IF hi \in segrange /\ Truth(right) THEN <<right>> ELSE <<>>)

\* Segments.remove(addrlo, addrhi): the new self._segments
RECURSIVE SegmentsRemove(_, _, _)
SegmentsRemove(list, lo, hi) ==
    IF Len(list) = 0 THEN <<>>
    ELSE RemoveKeepers(list[1], lo, hi) \o SegmentsRemove(Tail(list), lo, hi)

\* The loop body of Segments.getrange that keeps a segment when one address of
\* it lies in the window
GetRangeKeepersTouching(seg, lo, hi) ==
    IF addrhi(seg) <= lo \/ hi <= seg.addrlo THEN <<>>
    ELSE <<seg>>

\* What the loop body of Segments.getrange appends to keepers for seg
GetRangeKeepers(seg, lo, hi) ==
    IF addrhi(seg) <= lo \/ hi <= seg.addrlo THEN <<>>
    ELSE IF lo <= seg.addrlo /\ addrhi(seg) <= hi THEN <<seg>>
    ELSE IF size(subsegment(seg, lo, hi)) # 0 THEN <<subsegment(seg, lo, hi)>>
    ELSE <<>>

\* Segments.getrange(addrlo, addrhi): the list returned
RECURSIVE GetRange(_, _, _)
GetRange(list, lo, hi) ==
    IF Len(list) = 0 THEN <<>>
    ELSE GetRangeKeepers(list[1], lo, hi) \o GetRange(Tail(list), lo, hi)

\* parse_addr_range of the token A-B, given as <<A, B>>
ParseAddrRange(token) == [addrlo |-> token[1], addrhi |-> token[2] + 1]

\* The loop of keep_ranges: keepers.add(memory.segments.getrange(addrlo, addrhi))
\* for each token from the k-th on; KeepAfter once that add returned or raised r
RECURSIVE KeepFrom(_, _, _, _), KeepAfter(_, _, _, _)
KeepFrom(list, ranges, k, keepers) ==
    IF k > Len(ranges) THEN [segs |-> keepers, err |-> NoError]
    ELSE KeepAfter(list, ranges, k,
                   SegmentsAdd(keepers,
                               GetRange(list, ParseAddrRange(ranges[k]).addrlo,
                                        ParseAddrRange(ranges[k]).addrhi),
                               FALSE))

KeepAfter(list, ranges, k, r) ==
    IF r.err # NoError THEN [segs |-> list, err |-> r.err]
    ELSE KeepFrom(list, ranges, k + 1, r.segs)

\* keep_ranges(memory, ranges_list) on the list of memory.segments.  KeepResult
\* is memory.segments.clear() and memory.add(keepers) that end it, once the loop
\* returned or raised k.
KeepRanges(list, ranges) ==
    LET KeepResult(k) ==
            IF k.err # NoError THEN [segs |-> list, err |-> k.err]
            ELSE [segs |-> SegmentsAdd(<<>>, k.segs, FALSE).segs,
                  err |-> SegmentsAdd(<<>>, k.segs, FALSE).err]
    IN  IF Len(ranges) = 0 THEN [segs |-> list, err |-> NoError]
        ELSE KeepResult(KeepFrom(list, ranges, 1, <<>>))

\* the properties addrlo, addrhi and span of Segments
SegmentsAddrlo(list) == IF Len(list) > 0 THEN list[1].addrlo ELSE 0
SegmentsAddrhi(list) == IF Len(list) > 0 THEN addrhi(list[Len(list)]) ELSE 0
SegmentsSpan(list) ==
    IF Len(list) > 0 THEN addrhi(list[Len(list)]) - list[1].addrlo ELSE 0

------------------------------------------------------------------------------
(* Python values of memory.py: bytes, text and addresses.  A line of text is a  *)
(* sequence of characters, each a string of length one; a text is the sequence  *)
(* of its lines, as str.splitlines returns them.  An address read from or       *)
(* written to a file is a pair <<high, low>> that stands for high * 65536 + low *)
(* with low < 65536; the Segments of the model hold it less the origin.         *)

HexUpper == <<"0", "1", "2", "3", "4", "5", "6", "7", "8", "9", "A", "B", "C", "D", "E", "F">>
HexLower == <<"0", "1", "2", "3", "4", "5", "6", "7", "8", "9", "a", "b", "c", "d", "e", "f">>

\* the character class [0-9A-Fa-f], and the value of a character of it
HexValues ==
    [c \in {HexUpper[k] : k \in 1..16} \cup {HexLower[k] : k \in 1..16} |->
        (CHOOSE k \in 1..16 : HexUpper[k] = c \/ HexLower[k] = c) - 1]
HexValue(c) == HexValues[c]

\* bytes.hex().upper()
RECURSIVE HexText(_)
HexText(data) ==
    IF Len(data) = 0 THEN <<>>
    ELSE <<HexUpper[(data[1] \div 16) + 1], HexUpper[(data[1] % 16) + 1]>> \o HexText(Tail(data))

\* bytes.fromhex of an even number of hexadecimal characters
FromHex(chars) ==
    [k \in 1..(Len(chars) \div 2) |-> 16 * HexValue(chars[2 * k - 1]) + HexValue(chars[2 * k])]

\* str(rectype) of a record type below 10

\* sum(record)
RECURSIVE Sum(_)
Sum(data) == IF Len(data) = 0 THEN 0 ELSE data[1] + Sum(Tail(data))

\* int.to_bytes(2, byteorder='big') of an int below 65536
WordBytes(n) == <<n \div 256, n % 256>>

\* int.to_bytes(length, byteorder='big') of an address that fits
ToBytes(address, length) ==
    IF length = 2 THEN WordBytes(address[2])
    ELSE IF length = 3 THEN <<address[1]>> \o WordBytes(address[2])
    ELSE WordBytes(address[1]) \o WordBytes(address[2])

\* int.from_bytes(data, byteorder='big') of at most two bytes, an int
RECURSIVE IntFromBytes(_)
IntFromBytes(data) ==
    IF Len(data) = 0 THEN 0 ELSE 256 * IntFromBytes(SubSeq(data, 1, Len(data) - 1)) + data[Len(data)]

\* int.from_bytes(data, byteorder='big') of at most four bytes, an address
FromBytes(data) ==
    IF Len(data) <= 2 THEN <<0, IntFromBytes(data)>>
    ELSE <<IntFromBytes(SubSeq(data, 1, Len(data) - 2)),
           IntFromBytes(SubSeq(data, Len(data) - 1, Len(data)))>>

\* the address of a small int, and the sum of an address and a small int
AddressOf(n) == <<n \div 65536, n % 65536>>
AddressPlus(address, n) ==
    <<address[1] + ((address[2] + n) \div 65536), (address[2] + n) % 65536>>

\* int.bit_length() of an address compared with 16 and with 24
FitsBits16(address) == address[1] = 0
FitsBits24(address) == address[1] < 256

\* The address in a file of the address a of the model, and back.  An address
\* two pages or more away from the origin is far outside 0 .. AddrLimit on
\* either side, and is kept at that distance.
FileAddress(org, a) == AddressPlus(org, a)
ModelAddress(org, address) ==
    LET PagesApart == IF address[1] - org[1] > 2 THEN 2
                      ELSE IF address[1] - org[1] < -2 THEN -2
                      ELSE address[1] - org[1]
    IN  PagesApart * 65536 + (address[2] - org[2])

\* line_text.rstrip() of a line that ends in blanks
RECURSIVE RStrip(_)
RStrip(line) ==
    IF Len(line) > 0 /\ line[Len(line)] = " " THEN RStrip(SubSeq(line, 1, Len(line) - 1))
    ELSE line

\* the number of characters of [0-9A-Fa-f] that line holds in a row from index i
RECURSIVE HexRun(_, _)
HexRun(line, i) ==
    IF i > Len(line) THEN 0
    ELSE IF line[i] \notin DOMAIN HexValues THEN 0
    ELSE 1 + HexRun(line, i + 1)

\* re.search(r'S[0-9A-Fa-f]([0-9A-Fa-f]{2})+', line_text): found[0], <<>> for None
SearchSrec(line) ==
    LET starts == {i \in 1..Len(line) : line[i] = "S" /\ HexRun(line, i + 1) >= 3}
        first == CHOOSE i \in starts : \A j \in starts : i <= j
    IN  IF starts = {} THEN <<>>
        ELSE SubSeq(line, first, first + 1 + 2 * ((HexRun(line, first + 1) - 1) \div 2))

\* re.search(r':([0-9A-Fa-f]{2})+', line_text): found[0], <<>> for None
SearchIhex(line) ==
    LET starts == {i \in 1..Len(line) : line[i] = ":" /\ HexRun(line, i + 1) >= 2}
        first == CHOOSE i \in starts : \A j \in starts : i <= j
    IN  IF starts = {} THEN <<>>
        ELSE SubSeq(line, first, first + 2 * (HexRun(line, first + 1) \div 2))

------------------------------------------------------------------------------
(* memory.py: the records of the two text formats *)

IHEX_DATA == 0
IHEX_END_OF_FILE == 1
IHEX_EXTENDED_SEGMENT_ADDRESS == 2
IHEX_START_SEGMENT_ADDRESS == 3
IHEX_EXTENDED_LINEAR_ADDRESS == 4
IHEX_START_LINEAR_ADDRESS == 5
IHEX_UNSUPPORTED == 6

SREC_HEADER == 0
SREC_A16_DATA == 1
SREC_A24_DATA == 2
SREC_A32_DATA == 3
SREC_REC_INVALID == 4
SREC_A16_COUNT == 5
SREC_A24_COUNT == 6
SREC_A32_START == 7
SREC_A24_START == 8
SREC_A16_START == 9
SREC_UNSUPPORTED == 10
SREC_FLIP_VALUE == 10

EXPECTED_SREC_ADDRESS_LENGTH ==
    [r \in {0, 1, 2, 3, 5, 6, 7, 8, 9} |->
        IF r \in {SREC_HEADER, SREC_A16_DATA, SREC_A16_COUNT, SREC_A16_START} THEN 2
        ELSE IF r \in {SREC_A24_DATA, SREC_A24_COUNT, SREC_A24_START} THEN 3
        ELSE 4]

EXPECTED_IHEX_DATA_COUNT ==
    [r \in 1..5 |->
        IF r = IHEX_END_OF_FILE THEN 0
        ELSE IF r \in {IHEX_EXTENDED_SEGMENT_ADDRESS, IHEX_EXTENDED_LINEAR_ADDRESS} THEN 2
        ELSE 4]

\* The exceptions of memory.py, with the line that read_srec and read_ihex add
FileContentError(name, a, b, c, column_number) ==
    [name |-> name, a |-> a, b |-> b, c |-> c, column_number |-> column_number,
     line_number |-> 0, line_text |-> <<>>]
BadRecordTypeError(record_type, column_number) ==
    FileContentError("BadRecordTypeError", record_type, -1, -1, column_number)
ChecksumError(expected_checksum, actual_checksum, column_number) ==
    FileContentError("ChecksumError", expected_checksum, actual_checksum, -1, column_number)
RecordLengthError(expected_count, actual_count, column_number) ==
    FileContentError("RecordLengthError", expected_count, actual_count, -1, column_number)
RecordTypeLengthError(record_type, expected_count, actual_count, column_number) ==
    FileContentError("RecordTypeLengthError", record_type, expected_count, actual_count,
                     column_number)
StartAddressError == FileContentError("StartAddressError", -1, -1, -1, -1)
IsFileContentError(e) ==
    e.name \in {"BadRecordTypeError", "ChecksumError", "RecordLengthError",
                "RecordTypeLengthError", "StartAddressError"}

\* _ihextext(rectype, address, data), address an int below 65536
IhexText(rectype, address, data) ==
    LET count == Len(data)
        record == <<count>> \o WordBytes(address) \o <<rectype>> \o data
        checksum == (0 - Sum(record)) % 256
    IN  <<":">> \o HexText(record \o <<checksum>>)

\* _srectext(rectype, address, data), address an address
SrecText(rectype, address, data) ==
    LET address_length == EXPECTED_SREC_ADDRESS_LENGTH[rectype]
        count == address_length + Len(data) + 1
        record == <<count>> \o ToBytes(address, address_length) \o data
        checksum == 255 - (Sum(record) % 256)
    IN  <<"S", HexUpper[rectype + 1]>> \o HexText(record \o <<checksum>>)

\* what a parser returns, and how it raises e
Parsed(rectype, address, data) ==
    [err |-> NoError, rectype |-> rectype, address |-> address, data |-> data]
ParseFails(e) == [err |-> e, rectype |-> -1, address |-> <<0, 0>>, data |-> <<>>]

\* _parse_srec_line with the checksum that is expected taken for the actual one
ParseSrecLineSwapped(hextext) ==
    LET record == FromHex(<<"0">> \o Tail(hextext))
        recordsum == Sum(Tail(record)) % 256
        checksum == record[Len(record)]
        count == record[2]
        rectype == record[1]
        address_length == EXPECTED_SREC_ADDRESS_LENGTH[rectype]
    IN  IF recordsum # 255 THEN
            ParseFails(ChecksumError(checksum, 255 - ((recordsum - checksum) % 256),
                                     Len(hextext) - 2))
        ELSE IF count # Len(record) - 2 THEN
            ParseFails(RecordLengthError(Len(record) - 2, count, 2))
        ELSE IF rectype = SREC_REC_INVALID \/ rectype >= SREC_UNSUPPORTED THEN
            ParseFails(BadRecordTypeError(rectype, 0))
        ELSE IF rectype >= SREC_A16_COUNT /\ count # address_length + 1 THEN
            ParseFails(RecordTypeLengthError(rectype, address_length + 1, count, 2))
        ELSE Parsed(rectype, FromBytes(Slice(record, 2, address_length + 2)),
                    Slice(record, address_length + 2, -1))

\* _parse_srec_line(hextext)
ParseSrecLine(hextext) ==
    LET record == FromHex(<<"0">> \o Tail(hextext))
        recordsum == Sum(Tail(record)) % 256
        checksum == record[Len(record)]
        count == record[2]
        rectype == record[1]
        address_length == EXPECTED_SREC_ADDRESS_LENGTH[rectype]
    IN  IF recordsum # 255 THEN
            ParseFails(ChecksumError(255 - ((recordsum - checksum) % 256), checksum,
                                     Len(hextext) - 2))
        ELSE IF count # Len(record) - 2 THEN
            ParseFails(RecordLengthError(Len(record) - 2, count, 2))
        ELSE IF rectype = SREC_REC_INVALID \/ rectype >= SREC_UNSUPPORTED THEN
            ParseFails(BadRecordTypeError(rectype, 0))
        ELSE IF rectype >= SREC_A16_COUNT /\ count # address_length + 1 THEN
            ParseFails(RecordTypeLengthError(rectype, address_length + 1, count, 2))
        ELSE Parsed(rectype, FromBytes(Slice(record, 2, address_length + 2)),
                    Slice(record, address_length + 2, -1))

\* _parse_ihex_line that takes a record of any type
ParseIhexLineAnyType(hextext) ==
    LET record == FromHex(Tail(hextext))
        recordsum == Sum(record) % 256
        checksum == record[Len(record)]
        count == record[1]
        rectype == record[4]
    IN  IF recordsum # 0 THEN
            ParseFails(ChecksumError((checksum - recordsum) % 256, checksum,
                                     Len(hextext) - 2))
        ELSE IF count # Len(record) - 5 THEN
            ParseFails(RecordLengthError(Len(record) - 5, count, 1))
        ELSE Parsed(rectype, IntFromBytes(Slice(record, 1, 3)), Slice(record, 4, -1))

\* _parse_ihex_line(hextext); address is the int of the record's address field
ParseIhexLine(hextext) ==
    LET record == FromHex(Tail(hextext))
        recordsum == Sum(record) % 256
        checksum == record[Len(record)]
        count == record[1]
        rectype == record[4]
    IN  IF recordsum # 0 THEN
            ParseFails(ChecksumError((checksum - recordsum) % 256, checksum,
                                     Len(hextext) - 2))
        ELSE IF count # Len(record) - 5 THEN
            ParseFails(RecordLengthError(Len(record) - 5, count, 1))
        ELSE IF rectype >= IHEX_UNSUPPORTED THEN
            ParseFails(BadRecordTypeError(rectype, 7))
        ELSE IF rectype # 0 /\ count # EXPECTED_IHEX_DATA_COUNT[rectype] THEN
            ParseFails(RecordTypeLengthError(rectype, EXPECTED_IHEX_DATA_COUNT[rectype],
                                             count, 1))
        ELSE Parsed(rectype, IntFromBytes(Slice(record, 1, 3)), Slice(record, 4, -1))

------------------------------------------------------------------------------
(* memory.py: Memory.  A Memory is a record of its _segments (the list), its    *)
(* _start_address and its _header; the operators return the Memory as it is     *)
(* left and the exception raised.                                               *)

\* Memory.__init__ without a source, and Memory.clear
EmptyMemory == [segs |-> <<>>, start_address |-> None, header |-> <<>>]

\* Memory.header: b'\t'.join(self._header)
RECURSIVE JoinHeader(_)
JoinHeader(list) ==
    IF Len(list) = 0 THEN <<>>
    ELSE IF Len(list) = 1 THEN list[1]
    ELSE list[1] \o <<9>> \o JoinHeader(Tail(list))

\* Memory.extend_header(value) on the list self._header
ExtendHeader(list, value) ==
    IF Len(value) = 0 THEN list
    ELSE IF \E i \in 1..Len(list) : list[i] = value
    THEN RemoveAt(list, CHOOSE i \in 1..Len(list) :
                            list[i] = value /\ \A j \in 1..(i - 1) : list[j] # value)
         \o <<value>>
    ELSE list \o <<value>>

\* Memory.add(memory) with a Segment or a Segments object: segments is the list
MemoryAddSegments(mem, segments, overwrite) ==
    LET r == SegmentsAdd(mem.segs, segments, overwrite)
    IN  [mem |-> [mem EXCEPT !.segs = r.segs], err |-> r.err]

\* Memory.add(memory, overwrite, last_start) with a Memory that takes the start
\* address of memory whatever last_start is
MemoryAddLastStart(mem, memory, overwrite, last_start) ==
    IF memory.start_address # None /\ memory.start_address # mem.start_address
    THEN MemoryAddSegments([mem EXCEPT !.header = ExtendHeader(mem.header,
                                                               JoinHeader(memory.header)),
                                       !.start_address = memory.start_address],
                           memory.segs, overwrite)
    ELSE MemoryAddSegments([mem EXCEPT !.header = ExtendHeader(mem.header,
                                                               JoinHeader(memory.header))],
                           memory.segs, overwrite)

\* Memory.add(memory, overwrite, last_start) with a Memory
MemoryAdd(mem, memory, overwrite, last_start) ==
    IF memory.start_address # None /\ memory.start_address # mem.start_address
    THEN IF mem.start_address = None \/ last_start
         THEN MemoryAddSegments([mem EXCEPT !.header = ExtendHeader(mem.header,
                                                                    JoinHeader(memory.header)),
                                            !.start_address = memory.start_address],
                                memory.segs, overwrite)
         ELSE [mem |-> [mem EXCEPT !.header = ExtendHeader(mem.header,
                                                           JoinHeader(memory.header))],
               err |-> StartAddressError]
    ELSE MemoryAddSegments([mem EXCEPT !.header = ExtendHeader(mem.header,
                                                               JoinHeader(memory.header))],
                           memory.segs, overwrite)

\* The loop of the setter of Segments.addrlo that adds offset to every segment
\* from the first on, even to those that a failed assignment leaves behind
RECURSIVE MoveFrom(_, _, _)
MoveFrom(list, k, offset) ==
    IF k > Len(list) THEN [segs |-> list, err |-> NoError]
    ELSE IF SetAddrlo(list[k], list[k].addrlo + offset).err # NoError
    THEN [segs |-> [list EXCEPT ![k] = SetAddrlo(list[k], list[k].addrlo + offset).seg],
          err |-> SetAddrlo(list[k], list[k].addrlo + offset).err]
    ELSE MoveFrom([list EXCEPT ![k] = SetAddrlo(list[k], list[k].addrlo + offset).seg],
                  k + 1, offset)

\* The setter of Segments.addrlo that adds value to every segment
SetSegmentsAddrloAdding(list, value) == MoveFrom(list, 1, value)

\* Segments.addrlo = value, which Memory.moveto(address) does
SetSegmentsAddrlo(list, value) == MoveFrom(list, 1, value - SegmentsAddrlo(list))

\* Segment.split(bytes_per_seg)
RECURSIVE SplitFrom(_, _, _)
SplitFrom(seg, offset, bytes_per_seg) ==
    IF offset >= size(seg) THEN <<>>
    ELSE <<NewSegment(Slice(seg.data, offset, offset + bytes_per_seg),
                      seg.addrlo + offset).seg>>
         \o SplitFrom(seg, offset + bytes_per_seg, bytes_per_seg)

\* Segment.split that leaves out a last segment of fewer bytes
splitInFullSegments(seg, bytes_per_seg) ==
    SplitFrom([seg EXCEPT !.data = SliceTo(seg.data,
                                           (size(seg) \div bytes_per_seg) * bytes_per_seg)],
              0, bytes_per_seg)

split(seg, bytes_per_seg) == SplitFrom(seg, 0, bytes_per_seg)

\* the subsegments that the two nested loops of a writer go through
RECURSIVE Subsegments(_, _)
Subsegments(list, bytes_per_line) ==
    IF Len(list) = 0 THEN <<>>
    ELSE split(list[1], bytes_per_line) \o Subsegments(Tail(list), bytes_per_line)

\* The loop of Memory.write_ihex from the k-th subsegment on: the lines printed
RECURSIVE WriteIhexFrom(_, _, _, _)
WriteIhexFrom(subsegs, k, extaddr, org) ==
    IF k > Len(subsegs) THEN <<>>
    ELSE (IF extaddr # FileAddress(org, subsegs[k].addrlo)[1]
          THEN <<IhexText(IHEX_EXTENDED_LINEAR_ADDRESS, 0,
                          WordBytes(FileAddress(org, subsegs[k].addrlo)[1]))>>
          ELSE <<>>)
         \o <<IhexText(IHEX_DATA, FileAddress(org, subsegs[k].addrlo)[2], subsegs[k].data)>>
         \o WriteIhexFrom(subsegs, k + 1, FileAddress(org, subsegs[k].addrlo)[1], org)

\* write_ihex that takes the page of the first segment for the page in force
WriteIhexInFirstPage(mem, bytes_per_line, org) ==
    WriteIhexFrom(Subsegments(mem.segs, bytes_per_line), 1,
                  FileAddress(org, SegmentsAddrlo(mem.segs))[1], org)
    \o (IF mem.start_address # None
        THEN <<IhexText(IHEX_START_LINEAR_ADDRESS, 0, ToBytes(mem.start_address, 4))>>
        ELSE <<>>)
    \o <<IhexText(IHEX_END_OF_FILE, 0, <<>>)>>

\* write_ihex that ends the file before it prints the start address
WriteIhexStartLast(mem, bytes_per_line, org) ==
    WriteIhexFrom(Subsegments(mem.segs, bytes_per_line), 1, 0, org)
    \o <<IhexText(IHEX_END_OF_FILE, 0, <<>>)>>
    \o (IF mem.start_address # None
        THEN <<IhexText(IHEX_START_LINEAR_ADDRESS, 0, ToBytes(mem.start_address, 4))>>
        ELSE <<>>)

\* Memory.write_ihex(fout, bytes_per_line): the lines printed to fout
WriteIhex(mem, bytes_per_line, org) ==
    WriteIhexFrom(Subsegments(mem.segs, bytes_per_line), 1, 0, org)
    \o (IF mem.start_address # None
        THEN <<IhexText(IHEX_START_LINEAR_ADDRESS, 0, ToBytes(mem.start_address, 4))>>
        ELSE <<>>)
    \o <<IhexText(IHEX_END_OF_FILE, 0, <<>>)>>

\* the record type that write_srec chooses for the data; FileAddrhi is
\* self._segments.addrhi as write_srec reads it, an address of the file
SrecDataType(mem, org) ==
    LET FileAddrhi(list, o) ==
            IF Len(list) > 0 THEN FileAddress(o, SegmentsAddrhi(list)) ELSE <<0, 0>>
        start == IF mem.start_address # None /\ mem.start_address # <<0, 0>>
                 THEN mem.start_address ELSE <<0, 0>>
    IN  IF FitsBits16(FileAddrhi(mem.segs, org)) /\ FitsBits16(start) THEN SREC_A16_DATA
        ELSE IF FitsBits24(FileAddrhi(mem.segs, org)) /\ FitsBits24(start) THEN SREC_A24_DATA
        ELSE SREC_A32_DATA

\* the data records of write_srec
SrecDataLines(subsegs, rectype, org) ==
    [k \in 1..Len(subsegs) |->
        SrecText(rectype, FileAddress(org, subsegs[k].addrlo), subsegs[k].data)]

\* write_srec that prints the start record for a start address other than 0 only
WriteSrecStartIfSet(mem, bytes_per_line, show_count, org) ==
    (IF Len(mem.header) > 0
     THEN <<SrecText(SREC_HEADER, <<0, 0>>, JoinHeader(mem.header))>> ELSE <<>>)
    \o SrecDataLines(Subsegments(mem.segs, bytes_per_line), SrecDataType(mem, org), org)
    \o (IF show_count
        THEN <<SrecText(SREC_A16_COUNT,
                        AddressOf(Len(Subsegments(mem.segs, bytes_per_line))), <<>>)>>
        ELSE <<>>)
    \o (IF mem.start_address # None /\ mem.start_address # <<0, 0>>
        THEN <<SrecText(SREC_FLIP_VALUE - SrecDataType(mem, org), mem.start_address, <<>>)>>
        ELSE <<>>)

\* Memory.write_srec(fout, bytes_per_line, show_count): the lines printed to fout
WriteSrec(mem, bytes_per_line, show_count, org) ==
    (IF Len(mem.header) > 0
     THEN <<SrecText(SREC_HEADER, <<0, 0>>, JoinHeader(mem.header))>> ELSE <<>>)
    \o SrecDataLines(Subsegments(mem.segs, bytes_per_line), SrecDataType(mem, org), org)
    \o (IF show_count
        THEN <<SrecText(IF Len(Subsegments(mem.segs, bytes_per_line)) < 65536
                        THEN SREC_A16_COUNT ELSE SREC_A24_COUNT,
                        AddressOf(Len(Subsegments(mem.segs, bytes_per_line))), <<>>)>>
        ELSE <<>>)
    \o (IF mem.start_address # None
        THEN <<SrecText(SREC_FLIP_VALUE - SrecDataType(mem, org), mem.start_address, <<>>)>>
        ELSE <<>>)

\* the exception e with the line that read_srec and read_ihex name in it
AtLine(e, lines, n) == [e EXCEPT !.line_text = RStrip(lines[n]), !.line_number = n]

\* a << n of Python for a below 65536, an address; <<-1, -1>> is an int of
\* Python too large for the pairs of the model
ShiftLeft(a, n) ==
    IF a = 0 THEN <<0, 0>>
    ELSE IF n <= 16 THEN <<a \div (2 ^ (16 - n)), (a % (2 ^ (16 - n))) * (2 ^ n)>>
    ELSE IF n <= 31 /\ a * (2 ^ (n - 16)) < 65536 THEN <<a * (2 ^ (n - 16)), 0>>
    ELSE <<-1, -1>>

\* The loop of Memory.read_ihex from line n on.  ReadIhexRecord is the loop body
\* once _parse_ihex_line returned or raised rec, ReadIhexData once Segment(data,
\* extended_address + address) returned or raised s, ReadIhexAdded once
\* self._segments.add returned or raised r.
RECURSIVE ReadIhexFrom(_, _, _, _, _, _), ReadIhexRecord(_, _, _, _, _, _, _),
          ReadIhexData(_, _, _, _, _, _, _), ReadIhexAdded(_, _, _, _, _, _, _)
ReadIhexFrom(mem, lines, n, extended_address, overwrite, org) ==
    IF n > Len(lines) THEN [mem |-> mem, err |-> NoError]
    ELSE IF SearchIhex(lines[n]) = <<>>
    THEN ReadIhexFrom(mem, lines, n + 1, extended_address, overwrite, org)
    ELSE ReadIhexRecord(mem, lines, n, extended_address, overwrite, org,
                        ParseIhexLine(SearchIhex(lines[n])))

\* the loop body of read_ihex that ends the loop at an End Of File record
ReadIhexRecordToEnd(mem, lines, n, extended_address, overwrite, org, rec) ==
    IF rec.err = NoError /\ rec.rectype = IHEX_END_OF_FILE THEN [mem |-> mem, err |-> NoError]
    ELSE IF rec.err # NoError THEN [mem |-> mem, err |-> AtLine(rec.err, lines, n)]
        ELSE IF rec.rectype = IHEX_DATA THEN
            ReadIhexData(mem, lines, n, extended_address, overwrite, org,
                         NewSegment(rec.data,
                                    ModelAddress(org, AddressPlus(extended_address, rec.address))))
        ELSE IF rec.rectype = IHEX_EXTENDED_SEGMENT_ADDRESS THEN
            ReadIhexFrom(mem, lines, n + 1, ShiftLeft(IntFromBytes(rec.data), 4), overwrite, org)
        ELSE IF rec.rectype = IHEX_START_SEGMENT_ADDRESS THEN
            ReadIhexFrom([mem EXCEPT !.start_address =
                             ShiftLeft(IntFromBytes(Slice(rec.data, 0, 2)),
                                       4 + IntFromBytes(Slice(rec.data, 2, 4)))],
                         lines, n + 1, extended_address, overwrite, org)
        ELSE IF rec.rectype = IHEX_EXTENDED_LINEAR_ADDRESS THEN
            ReadIhexFrom(mem, lines, n + 1, ShiftLeft(IntFromBytes(rec.data), 16), overwrite, org)
        ELSE IF rec.rectype = IHEX_START_LINEAR_ADDRESS THEN
            ReadIhexFrom([mem EXCEPT !.start_address = FromBytes(rec.data)],
                         lines, n + 1, extended_address, overwrite, org)
        ELSE ReadIhexFrom(mem, lines, n + 1, extended_address, overwrite, org)

ReadIhexRecord(mem, lines, n, extended_address, overwrite, org, rec) ==
    IF rec.err # NoError THEN [mem |-> mem, err |-> AtLine(rec.err, lines, n)]
    ELSE IF rec.rectype = IHEX_DATA THEN
        ReadIhexData(mem, lines, n, extended_address, overwrite, org,
                     NewSegment(rec.data,
                                ModelAddress(org, AddressPlus(extended_address, rec.address))))
    ELSE IF rec.rectype = IHEX_EXTENDED_SEGMENT_ADDRESS THEN
        ReadIhexFrom(mem, lines, n + 1, ShiftLeft(IntFromBytes(rec.data), 4), overwrite, org)
    ELSE IF rec.rectype = IHEX_START_SEGMENT_ADDRESS THEN
        ReadIhexFrom([mem EXCEPT !.start_address =
                         ShiftLeft(IntFromBytes(Slice(rec.data, 0, 2)),
                                   4 + IntFromBytes(Slice(rec.data, 2, 4)))],
                     lines, n + 1, extended_address, overwrite, org)
    ELSE IF rec.rectype = IHEX_EXTENDED_LINEAR_ADDRESS THEN
        ReadIhexFrom(mem, lines, n + 1, ShiftLeft(IntFromBytes(rec.data), 16), overwrite, org)
    ELSE IF rec.rectype = IHEX_START_LINEAR_ADDRESS THEN
        ReadIhexFrom([mem EXCEPT !.start_address = FromBytes(rec.data)],
                     lines, n + 1, extended_address, overwrite, org)
    ELSE ReadIhexFrom(mem, lines, n + 1, extended_address, overwrite, org)

ReadIhexData(mem, lines, n, extended_address, overwrite, org, s) ==
    IF s.err # NoError THEN [mem |-> mem, err |-> s.err]
    ELSE ReadIhexAdded(mem, lines, n, extended_address, overwrite, org,
                       SegmentsAdd(mem.segs, <<s.seg>>, overwrite))

ReadIhexAdded(mem, lines, n, extended_address, overwrite, org, r) ==
    IF r.err # NoError THEN [mem |-> [mem EXCEPT !.segs = r.segs], err |-> r.err]
    ELSE ReadIhexFrom([mem EXCEPT !.segs = r.segs], lines, n + 1, extended_address,
                      overwrite, org)

\* Memory.read_ihex(ihex, overwrite_data): the text is the list of its lines
ReadIhex(lines, overwrite, org) == ReadIhexFrom(EmptyMemory, lines, 1, <<0, 0>>, overwrite, org)

\* The loop of Memory.read_srec from line n on, in the same steps
RECURSIVE ReadSrecFrom(_, _, _, _, _), ReadSrecRecord(_, _, _, _, _, _),
          ReadSrecData(_, _, _, _, _, _), ReadSrecAdded(_, _, _, _, _, _)
ReadSrecFrom(mem, lines, n, overwrite, org) ==
    IF n > Len(lines) THEN [mem |-> mem, err |-> NoError]
    ELSE IF SearchSrec(lines[n]) = <<>> THEN ReadSrecFrom(mem, lines, n + 1, overwrite, org)
    ELSE ReadSrecRecord(mem, lines, n, overwrite, org, ParseSrecLine(SearchSrec(lines[n])))

\* the loop body of read_srec that ends the loop at a Record Count record
ReadSrecRecordToCount(mem, lines, n, overwrite, org, rec) ==
    IF rec.err = NoError /\ rec.rectype \in {SREC_A16_COUNT, SREC_A24_COUNT}
    THEN [mem |-> mem, err |-> NoError]
    ELSE IF rec.err # NoError THEN [mem |-> mem, err |-> AtLine(rec.err, lines, n)]
    ELSE IF rec.rectype = SREC_HEADER THEN
        ReadSrecFrom([mem EXCEPT !.header = <<rec.data>>], lines, n + 1, overwrite, org)
    ELSE IF rec.rectype \in {SREC_A16_DATA, SREC_A24_DATA, SREC_A32_DATA} THEN
        ReadSrecData(mem, lines, n, overwrite, org,
                     NewSegment(rec.data, ModelAddress(org, rec.address)))
    ELSE ReadSrecFrom([mem EXCEPT !.start_address = rec.address], lines, n + 1, overwrite, org)

ReadSrecRecord(mem, lines, n, overwrite, org, rec) ==
    IF rec.err # NoError THEN [mem |-> mem, err |-> AtLine(rec.err, lines, n)]
    ELSE IF rec.rectype = SREC_HEADER THEN
        ReadSrecFrom([mem EXCEPT !.header = <<rec.data>>], lines, n + 1, overwrite, org)
    ELSE IF rec.rectype \in {SREC_A16_DATA, SREC_A24_DATA, SREC_A32_DATA} THEN
        ReadSrecData(mem, lines, n, overwrite, org,
                     NewSegment(rec.data, ModelAddress(org, rec.address)))
    ELSE IF rec.rectype \in {SREC_A16_START, SREC_A24_START, SREC_A32_START} THEN
        ReadSrecFrom([mem EXCEPT !.start_address = rec.address], lines, n + 1, overwrite, org)
    ELSE ReadSrecFrom(mem, lines, n + 1, overwrite, org)

ReadSrecData(mem, lines, n, overwrite, org, s) ==
    IF s.err # NoError THEN [mem |-> mem, err |-> s.err]
    ELSE ReadSrecAdded(mem, lines, n, overwrite, org,
                       SegmentsAdd(mem.segs, <<s.seg>>, overwrite))

ReadSrecAdded(mem, lines, n, overwrite, org, r) ==
    IF r.err # NoError THEN [mem |-> [mem EXCEPT !.segs = r.segs], err |-> r.err]
    ELSE ReadSrecFrom([mem EXCEPT !.segs = r.segs], lines, n + 1, overwrite, org)

\* Memory.read_srec(srec, overwrite_data): the text is the list of its lines
ReadSrec(lines, overwrite, org) == ReadSrecFrom(EmptyMemory, lines, 1, overwrite, org)

\* Memory.read_binary(binary) on the Memory mem: Segment(binary) is at the
\* address 0 of the file
ReadBinary(mem, binary, org) ==
    IF NewSegment(binary, ModelAddress(org, <<0, 0>>)).err # NoError
    THEN [mem |-> mem, err |-> NewSegment(binary, ModelAddress(org, <<0, 0>>)).err]
    ELSE MemoryAddSegments(EmptyMemory,
                           <<NewSegment(binary, ModelAddress(org, <<0, 0>>)).seg>>, FALSE)

\* Memory.read(filename, overwrite_data) on the Memory mem.  The file is a
\* record of its bytes, binary, and of what binary.decode('utf-8', 'strict')
\* makes of them: utf8 is FALSE for UnicodeDecodeError, and lines is the text.
\* ReadAfterIhex is the rest of read once read_ihex returned or raised r.
ReadAfterIhex(file, org, r) ==
    IF r.err # NoError THEN r
    ELSE IF Len(r.mem.segs) # 0 THEN r
    ELSE ReadBinary(r.mem, file.binary, org)

\* Memory.read that takes the text for Intel Hex first
ReadIhexFirst(mem, file, overwrite, org) ==
    IF ~file.utf8 THEN ReadBinary(mem, file.binary, org)
    ELSE IF ReadIhex(file.lines, overwrite, org).err # NoError
              \/ Len(ReadIhex(file.lines, overwrite, org).mem.segs) # 0
    THEN ReadIhex(file.lines, overwrite, org)
    ELSE ReadAfterIhex(file, org, ReadSrec(file.lines, overwrite, org))

\* Memory.read(filename, overwrite_data); ReadAfterSrec is the rest of it once
\* read_srec returned or raised r
Read(mem, file, overwrite, org) ==
    LET ReadAfterSrec(r) ==
            IF r.err # NoError THEN r
            ELSE IF Len(r.mem.segs) # 0 THEN r
            ELSE ReadAfterIhex(file, org, ReadIhex(file.lines, overwrite, org))
    IN  IF ~file.utf8 THEN ReadBinary(mem, file.binary, org)
        ELSE ReadAfterSrec(ReadSrec(file.lines, overwrite, org))

\* The body of the loop of read_input_files for one input file, on the Memory
\* mem of hex.main.  token is what the argument holds after the file name: at is
\* FALSE when there is no @ADDR, else address is int(found[3], base=16).
\* ReadInputRead is the rest of the body once Memory(found[1]) returned or raised
\* r, ReadInputMoved once memfile.moveto(address) returned or raised r.
ReadInputFile(mem, file, token, overwrite, last_start, org) ==
    LET ReadInputMoved(memfile, r) ==
            IF r.err # NoError THEN [mem |-> mem, err |-> r.err]
            ELSE MemoryAdd(mem, [memfile EXCEPT !.segs = r.segs], overwrite, last_start)
        ReadInputRead(r) ==
            IF r.err # NoError THEN [mem |-> mem, err |-> r.err]
            ELSE IF token.at
            THEN ReadInputMoved(r.mem, SetSegmentsAddrlo(r.mem.segs, token.address))
            ELSE MemoryAdd(mem, r.mem, overwrite, last_start)
    IN  ReadInputRead(Read(EmptyMemory, file, overwrite, org))

------------------------------------------------------------------------------
(* Inputs.  The code copies bytes and compares them for equality, nothing else. *)
(* The byte an input puts at address a is a itself or 255, so that two inputs   *)
(* can agree or differ at every address and a byte that lands at a wrong        *)
(* address shows.  Fill patterns are made of 254 and 255.                       *)

OwnData(a, k) == [i \in 1..k |-> a + i - 1]
MixedData(a, k) ==
    {[i \in 1..k |-> IF i \in S THEN 255 ELSE a + i - 1] : S \in SUBSET (1..k)}

\* The list holding the image f from address a up, one Segment for each maximal
\* run of data: f[a] is -1 where no byte is defined, 0 for the byte a, 1 for 255
RECURSIVE ListOfMap(_, _)
ListOfMap(f, a) ==
    IF a >= AddrLimit THEN <<>>
    ELSE IF f[a] = -1 THEN ListOfMap(f, a + 1)
    ELSE LET byte == IF f[a] = 0 THEN a ELSE 255
             rest == ListOfMap(f, a + 1)
         IN  IF Len(rest) > 0 /\ rest[1].addrlo = a + 1
             THEN <<[addrlo |-> a, data |-> <<byte>> \o rest[1].data]>> \o Tail(rest)
             ELSE <<[addrlo |-> a, data |-> <<byte>>]>> \o rest

\* The lists that add builds from the empty list, of the images of own bytes
OwnLists == {ListOfMap(f, 0) : f \in [0..(AddrLimit - 1) -> {-1, 0}]}

\* The fill patterns: bytes.fromhex(pattern), not empty
FillPatterns == UNION {[1..k -> {254, 255}] : k \in 1..MaxPattern}

\* The Segment objects of at most MaxLen bytes that the constructor builds
CallSegments ==
    UNION {UNION {{[addrlo |-> a, data |-> d] : d \in MixedData(a, k)} :
                      k \in {j \in 0..MaxLen : NewSegment(OwnData(a, j), a).err = NoError}} :
               a \in 0..(AddrLimit - 1)}

\* Those of them that hold data, all of it own or all of it 255, and the empty one
RunSegments ==
    {s \in CallSegments : size(s) > 0 /\ s.data \in {OwnData(s.addrlo, size(s)),
                                                    [i \in 1..size(s) |-> 255]}}
    \cup {EmptySegment}

\* The lists of two one-byte segments one address apart, in either order
FileLists ==
    UNION {UNION {{<<[addrlo |-> a, data |-> d1], [addrlo |-> a + 2, data |-> d2]>>,
                   <<[addrlo |-> a + 2, data |-> d2], [addrlo |-> a, data |-> d1]>>} :
                      d1 \in MixedData(a, 1), d2 \in MixedData(a + 2, 1)} :
               a \in 0..(AddrLimit - 3)}

NoCall ==
    [op |-> "none", segments |-> <<>>, overwrite |-> FALSE,
     addrlo |-> 0, addrhi |-> 0, fill |-> <<>>]

------------------------------------------------------------------------------
(* Building the image, as hex.main does: segments are added from the input      *)
(* files and the custom data, then the gaps are filled.  An exception ends the  *)
(* run.                                                                         *)

Init ==
    /\ segs = <<>>
    /\ pc = "input"
    /\ err = NoError
    /\ call = NoCall
    /\ pre = [segs |-> <<>>, self |-> EmptySegment]
    /\ NoMemory
    /\ self = EmptySegment

\* Segments.add(segment, overwrite) with one Segment
AddSegment ==
    /\ pc = "input"
    /\ \E segment \in RunSegments, overwrite \in BOOLEAN :
        \E r \in {SegmentsAdd(segs, <<segment>>, overwrite)} :
            /\ segs' = r.segs
            /\ err' = r.err
            /\ pc' = IF r.err = NoError THEN "input" ELSE "failed"
            /\ call' = [NoCall EXCEPT !.op = "add"]
    /\ UNCHANGED <<pre, self>>
    /\ UNCHANGED memvars

\* Segments.add(segments, overwrite) with a list, as Memory.add calls it for
\* the segments of a file
AddList ==
    /\ pc = "input"
    /\ \E segments \in FileLists, overwrite \in BOOLEAN :
        \E r \in {SegmentsAdd(segs, segments, overwrite)} :
            /\ segs' = r.segs
            /\ err' = r.err
            /\ pc' = IF r.err = NoError THEN "input" ELSE "failed"
            /\ call' = [NoCall EXCEPT !.op = "add"]
    /\ UNCHANGED <<pre, self>>
    /\ UNCHANGED memvars

\* fill_unused_memory with a pattern, once the image holds data
FillGaps ==
    /\ pc = "input"
    /\ SegmentsSpan(segs) # 0
    /\ \E fill \in FillPatterns :
        \E r \in {SegmentsFill(segs, fill)} :
            /\ segs' = r.segs
            /\ err' = r.err
            /\ pc' = IF r.err = NoError THEN "filled" ELSE "failed"
            /\ call' = [NoCall EXCEPT !.op = "fill"]
    /\ UNCHANGED <<pre, self>>
    /\ UNCHANGED memvars

Spec == Init /\ [][AddSegment \/ AddList \/ FillGaps]_vars

------------------------------------------------------------------------------
(* One call of Segment.add: self.add(segment, overwrite) on any two Segments *)

InitSegmentAdd ==
    /\ segs = <<>>
    /\ pc = "call"
    /\ err = NoError
    /\ self \in CallSegments
    /\ \E segment \in CallSegments, overwrite \in BOOLEAN :
        call = [NoCall EXCEPT !.op = "Segment.add", !.segments = <<segment>>,
                              !.overwrite = overwrite]
    /\ pre = [segs |-> <<>>, self |-> self]
    /\ NoMemory

CallSegmentAdd ==
    /\ pc = "call"
    /\ call.op = "Segment.add"
    /\ \E r \in {SegmentAdd(self, call.segments[1], call.overwrite)} :
        /\ self' = r.seg
        /\ err' = r.err
    /\ pc' = "done"
    /\ UNCHANGED <<segs, call, pre>>
    /\ UNCHANGED memvars

SpecSegmentAdd == InitSegmentAdd /\ [][CallSegmentAdd]_vars

------------------------------------------------------------------------------
(* One call of Segments.add on a list that add built *)

InitAdd ==
    /\ segs \in OwnLists
    /\ pc = "call"
    /\ err = NoError
    /\ \E segment \in CallSegments, overwrite \in BOOLEAN :
        call = [NoCall EXCEPT !.op = "add", !.segments = <<segment>>,
                              !.overwrite = overwrite]
    /\ pre = [segs |-> segs, self |-> EmptySegment]
    /\ NoMemory
    /\ self = EmptySegment

CallAdd ==
    /\ pc = "call"
    /\ call.op = "add"
    /\ \E r \in {SegmentsAdd(segs, call.segments, call.overwrite)} :
        /\ segs' = r.segs
        /\ err' = r.err
    /\ pc' = "done"
    /\ UNCHANGED <<call, pre, self>>
    /\ UNCHANGED memvars

\* the same call once more, after it returned
CallAddAgain ==
    /\ pc = "done"
    /\ call.op = "add"
    /\ err = NoError
    /\ \E r \in {SegmentsAdd(segs, call.segments, call.overwrite)} :
        /\ segs' = r.segs
        /\ err' = r.err
    /\ pre' = [segs |-> segs, self |-> EmptySegment]
    /\ pc' = "again"
    /\ UNCHANGED <<call, self>>
    /\ UNCHANGED memvars

SpecAdd == InitAdd /\ [][CallAdd \/ CallAddAgain]_vars

------------------------------------------------------------------------------
(* One call of Segments.fill on a list that add built *)

InitFill ==
    /\ segs \in {ListOfMap(f, 0) : f \in [0..(AddrLimit - 1) -> {-1, 0, 1}]}
    /\ pc = "call"
    /\ err = NoError
    /\ \E fill \in FillPatterns : call = [NoCall EXCEPT !.op = "fill", !.fill = fill]
    /\ pre = [segs |-> segs, self |-> EmptySegment]
    /\ NoMemory
    /\ self = EmptySegment

CallFill ==
    /\ pc = "call"
    /\ call.op = "fill"
    /\ \E r \in {SegmentsFill(segs, call.fill)} :
        /\ segs' = r.segs
        /\ err' = r.err
    /\ pc' = "done"
    /\ UNCHANGED <<call, pre, self>>
    /\ UNCHANGED memvars

SpecFill == InitFill /\ [][CallFill]_vars

------------------------------------------------------------------------------
(* remove_ranges with one or two ranges on a list that add built; a token A-B   *)
(* with A <= B gives addrlo < addrhi                                            *)

InitRemove ==
    /\ segs \in OwnLists
    /\ pc = "built"
    /\ err = NoError
    /\ call = NoCall
    /\ pre = [segs |-> segs, self |-> EmptySegment]
    /\ NoMemory
    /\ self = EmptySegment

RemoveRange ==
    /\ pc \in {"built", "removed"}
    /\ \E lo \in 0..(AddrLimit - 1) : \E hi \in (lo + 1)..AddrLimit :
        /\ segs' = SegmentsRemove(segs, lo, hi)
        /\ call' = [NoCall EXCEPT !.op = "remove", !.addrlo = lo, !.addrhi = hi]
    /\ pre' = [segs |-> segs, self |-> EmptySegment]
    /\ pc' = IF pc = "built" THEN "removed" ELSE "done"
    /\ UNCHANGED <<err, self>>
    /\ UNCHANGED memvars

SpecRemove == InitRemove /\ [][RemoveRange]_vars

------------------------------------------------------------------------------
(* One call of Segments.getrange, or keep_ranges with one token, on a list that *)
(* add built                                                                    *)

InitGetRange ==
    /\ segs \in OwnLists
    /\ pc = "call"
    /\ err = NoError
    /\ call = NoCall
    /\ pre = [segs |-> segs, self |-> EmptySegment]
    /\ NoMemory
    /\ self = EmptySegment

CallGetRange ==
    /\ pc = "call"
    /\ \E lo \in 0..AddrLimit, hi \in 0..AddrLimit :
        /\ ret' = GetRange(segs, lo, hi)
        /\ call' = [NoCall EXCEPT !.op = "getrange", !.addrlo = lo, !.addrhi = hi]
    /\ pc' = "done"
    /\ UNCHANGED <<segs, err, pre, self, start_address, header, origin, merged>>

KeepRange ==
    /\ pc = "call"
    /\ \E token \in (0..(AddrLimit - 1)) \X (0..(AddrLimit - 1)) :
        \E r \in {KeepRanges(segs, <<token>>)} :
            /\ segs' = r.segs
            /\ err' = r.err
            /\ call' = [NoCall EXCEPT !.op = "keep", !.addrlo = token[1], !.addrhi = token[2]]
    /\ pc' = "done"
    /\ UNCHANGED <<pre, self>>
    /\ UNCHANGED memvars

SpecGetRange == InitGetRange /\ [][CallGetRange \/ KeepRange]_vars

------------------------------------------------------------------------------
(* The images that are written to a file and read back.  The addresses of the  *)
(* model stand for the file addresses from origin on; the origins put the      *)
(* segments at the bottom of the address space, across the end of the first    *)
(* 64 KiB page, across the end of the 24-bit addresses and at the very top.    *)

\* Memory._header: nothing, the data of one header record, or that of a header
\* record without data, which read_srec keeps as it keeps any other
Headers == {<<>>, <<<<104, 105>>>>, <<<<>>>>}

\* bytes_per_line: 16 is what write passes on, 1 and 2 split the segments of the
\* model as 16 splits longer ones
BytesPerLine == {1, 2, 16}

\* Memory._start_address is None, or an int that takes 0, 16, 24 or 32 bits
InitImage ==
    /\ segs \in OwnLists
    /\ start_address \in {None, <<0, 0>>, <<0, 4660>>, <<1, 0>>, <<65535, 65535>>}
    /\ header \in Headers
    /\ origin \in {<<0, 0>>, <<0, 65533>>, <<255, 65533>>, <<65535, 65536 - AddrLimit>>}
    /\ ret = <<>>
    /\ merged = <<>>
    /\ pc = "image"
    /\ err = NoError
    /\ call = NoCall
    /\ pre = [segs |-> segs, self |-> EmptySegment]
    /\ self = EmptySegment

\* the Memory object that the variables hold
Image == [segs |-> segs, start_address |-> start_address, header |-> header]

\* the variables after a reader left the Memory object as r.mem, or raised r.err
Loaded(r) ==
    /\ segs' = r.mem.segs
    /\ start_address' = r.mem.start_address
    /\ header' = r.mem.header
    /\ err' = r.err

------------------------------------------------------------------------------
(* Memory.write_srec to a file, then Memory.read_srec of that file's text *)

WriteSrecFile ==
    /\ pc = "image"
    /\ \E bytes_per_line \in BytesPerLine, show_count \in BOOLEAN :
        /\ ret' = WriteSrec(Image, bytes_per_line, show_count, origin)
        /\ call' = [op |-> "write_srec", bytes_per_line |-> bytes_per_line,
                    show_count |-> show_count]
    /\ pc' = "written"
    /\ UNCHANGED <<segs, err, pre, self, start_address, header, origin, merged>>

ReadSrecFile ==
    /\ pc = "written"
    /\ \E r \in {ReadSrec(ret, FALSE, origin)} : Loaded(r)
    /\ pre' = [segs |-> segs, self |-> EmptySegment,
               start_address |-> start_address, header |-> header]
    /\ pc' = "done"
    /\ UNCHANGED <<call, self, ret, origin, merged>>

SpecSrec == InitImage /\ [][WriteSrecFile \/ ReadSrecFile]_vars

------------------------------------------------------------------------------
(* Memory.write_ihex to a file, then Memory.read_ihex of that file's text *)

WriteIhexFile ==
    /\ pc = "image"
    /\ \E bytes_per_line \in BytesPerLine :
        /\ ret' = WriteIhex(Image, bytes_per_line, origin)
        /\ call' = [op |-> "write_ihex", bytes_per_line |-> bytes_per_line,
                    show_count |-> FALSE]
    /\ pc' = "written"
    /\ UNCHANGED <<segs, err, pre, self, start_address, header, origin, merged>>

ReadIhexFile ==
    /\ pc = "written"
    /\ \E r \in {ReadIhex(ret, FALSE, origin)} : Loaded(r)
    /\ pre' = [segs |-> segs, self |-> EmptySegment,
               start_address |-> start_address, header |-> header]
    /\ pc' = "done"
    /\ UNCHANGED <<call, self, ret, origin, merged>>

\* write_ihex prints no header: the images are those without one
InitIhex == InitImage /\ header = <<>>

SpecIhex == InitIhex /\ [][WriteIhexFile \/ ReadIhexFile]_vars

------------------------------------------------------------------------------
(* read_input_files: Memory objects are merged into the image of hex.main, one  *)
(* Memory.add after the other, until one raises                                 *)

MaxMerges == 3

\* the Memory objects merged; their segments are none, one segment, and one
\* that collides with it
MergeInputs ==
    [segs : {<<>>, <<[addrlo |-> 0, data |-> OwnData(0, 2)]>>,
             <<[addrlo |-> 1, data |-> <<255>>]>>},
     start_address : {None, <<0, 0>>, <<0, 4660>>},
     header : Headers]

InitMerge ==
    /\ segs = <<>>
    /\ pc = "merge"
    /\ err = NoError
    /\ call = NoCall
    /\ pre = [segs |-> segs, self |-> EmptySegment]
    /\ NoMemory
    /\ self = EmptySegment

\* memory.add(memfile, overwrite, last_start).  An input that is refused for
\* its start address is not merged; any other has had its start address looked
\* at and its segments added, as far as they went.
MergeMemory ==
    /\ pc = "merge"
    /\ Len(merged) < MaxMerges
    /\ \E memory \in MergeInputs, overwrite \in BOOLEAN, last_start \in BOOLEAN :
        \E r \in {MemoryAdd(Image, memory, overwrite, last_start)} :
            /\ Loaded(r)
            /\ call' = [op |-> "add", memory |-> memory, overwrite |-> overwrite,
                        last_start |-> last_start]
            /\ merged' = IF r.err = StartAddressError THEN merged
                         ELSE Append(merged, [start_address |-> memory.start_address,
                                              last_start |-> last_start])
            /\ pc' = IF r.err = NoError THEN "merge" ELSE "failed"
    /\ pre' = [segs |-> segs, self |-> EmptySegment,
               start_address |-> start_address, header |-> header]
    /\ UNCHANGED <<self, ret, origin>>

SpecMerge == InitMerge /\ [][MergeMemory]_vars

------------------------------------------------------------------------------
(* The input files.  A file is its bytes and what the decoding of them as UTF-8 *)
(* gives.  As the address space, the bytes of a text file are scaled: the file  *)
(* holds the first MaxLen bytes of its text, so that it fits the address space  *)
(* as a file fits the 32-bit one.                                               *)

\* the bytes of a text that print wrote line by line; CodeOf is the code of a
\* character of the text of a record
RECURSIVE Encode(_)
Encode(lines) ==
    LET CodeOf(c) ==
            IF c = "S" THEN 83
            ELSE IF c = ":" THEN 58
            ELSE IF c = " " THEN 32
            ELSE IF \E k \in 11..16 : HexLower[k] = c THEN 87 + HexValue(c)
            ELSE IF HexValue(c) < 10 THEN 48 + HexValue(c)
            ELSE 55 + HexValue(c)
    IN  IF Len(lines) = 0 THEN <<>>
        ELSE [k \in 1..Len(lines[1]) |-> CodeOf(lines[1][k])] \o <<10>>
             \o Encode(Tail(lines))

TextFile(lines) == [binary |-> SliceTo(Encode(lines), MaxLen), utf8 |-> TRUE, lines |-> lines]

\* a file of bytes that are no UTF-8
BinaryFile(binary) == [binary |-> binary, utf8 |-> FALSE, lines |-> <<>>]


------------------------------------------------------------------------------
(* read_input_files with one input file, with or without @ADDR, for an image   *)
(* that holds nothing or one byte at the top of the address space              *)

\* the files that write_output wrote of the images that hold data, and a file
\* that is binary
RelocFiles ==
    LET ImageOf(list) == [EmptyMemory EXCEPT !.segs = list]
    IN  {TextFile(WriteSrec(ImageOf(list), 16, FALSE, <<0, 0>>)) : list \in OwnLists \ {<<>>}}
        \cup {TextFile(WriteIhex(ImageOf(list), 16, <<0, 0>>)) : list \in OwnLists \ {<<>>}}
        \cup {BinaryFile(<<200, 201>>)}

Tokens ==
    {[at |-> FALSE, address |-> 0]} \cup {[at |-> TRUE, address |-> a] : a \in 0..AddrLimit}

InitRelocate ==
    /\ segs \in {<<>>, <<[addrlo |-> AddrLimit - 1, data |-> OwnData(AddrLimit - 1, 1)]>>}
    /\ pc = "input"
    /\ err = NoError
    /\ call = NoCall
    /\ pre = [segs |-> segs, self |-> EmptySegment]
    /\ NoMemory
    /\ self = EmptySegment

\* one turn of the loop of read_input_files; image is what Memory(found[1])
\* read from the file
ReadInput ==
    /\ pc = "input"
    /\ \E file \in RelocFiles, token \in Tokens, overwrite \in BOOLEAN :
        /\ \E r \in {ReadInputFile(Image, file, token, overwrite, FALSE, origin)} : Loaded(r)
        /\ call' = [op |-> "read_input", token |-> token, overwrite |-> overwrite,
                    image |-> Read(EmptyMemory, file, overwrite, origin).mem.segs]
    /\ pre' = [segs |-> segs, self |-> EmptySegment,
               start_address |-> start_address, header |-> header]
    /\ pc' = "done"
    /\ UNCHANGED <<self, ret, origin, merged>>

SpecRelocate == InitRelocate /\ [][ReadInput]_vars

------------------------------------------------------------------------------
(* Memory.read of a file: of bytes that are no UTF-8, or of a text of at most   *)
(* MaxLines lines, each a record of one of the two formats or blank             *)

MaxLines == 3

\* all texts of at most n lines out of a set of lines
RECURSIVE TextsUpTo(_, _)
TextsUpTo(lines, n) ==
    IF n = 0 THEN {<<>>}
    ELSE {<<>>} \cup {<<line>> \o text : line \in lines, text \in TextsUpTo(lines, n - 1)}

ReadFiles ==
    LET ReadLines ==
            {SrecText(SREC_HEADER, <<0, 0>>, <<104>>),
             SrecText(SREC_A16_DATA, <<0, 0>>, <<0>>),
             SrecText(SREC_A16_DATA, <<0, 2>>, <<255>>),
             SrecText(SREC_A16_START, <<0, 4660>>, <<>>),
             IhexText(IHEX_DATA, 2, <<2>>),
             IhexText(IHEX_START_LINEAR_ADDRESS, 0, <<0, 1, 0, 0>>),
             IhexText(IHEX_END_OF_FILE, 0, <<>>),
             <<" ">>}
    IN  {TextFile(text) : text \in TextsUpTo(ReadLines, MaxLines)}
        \cup {BinaryFile(<<200, 201>>), BinaryFile(<<255>>)}

\* the Memory that read is called on: a new one, as in Memory.__init__, or one
\* that holds an image
InitRead ==
    /\ \E mem \in {EmptyMemory,
                    [segs |-> <<[addrlo |-> 4, data |-> OwnData(4, 2)]>>,
                     start_address |-> <<0, 1>>, header |-> <<<<105>>>>]} :
           segs = mem.segs /\ start_address = mem.start_address /\ header = mem.header
    /\ origin = <<0, 0>>
    /\ ret = <<>>
    /\ merged = <<>>
    /\ pc = "file"
    /\ err = NoError
    /\ call = NoCall
    /\ pre = [segs |-> segs, self |-> EmptySegment]
    /\ self = EmptySegment

ReadFile ==
    /\ pc = "file"
    /\ \E file \in ReadFiles, overwrite \in BOOLEAN :
        /\ \E r \in {Read(Image, file, overwrite, origin)} : Loaded(r)
        /\ call' = [op |-> "read", file |-> file, overwrite |-> overwrite]
    /\ pre' = [segs |-> segs, self |-> EmptySegment,
               start_address |-> start_address, header |-> header]
    /\ pc' = "done"
    /\ UNCHANGED <<self, ret, origin, merged>>

SpecRead == InitRead /\ [][ReadFile]_vars

------------------------------------------------------------------------------
(* Memory.read_srec and Memory.read_ihex of a text of at most MaxLines lines.   *)
(* The addresses of the model stand for the last three addresses of the first   *)
(* 64 KiB page and the first ones of the next, so that data can be placed with  *)
(* and without an extended address.                                             *)

DecodeOrigin == <<0, 65533>>

\* the text of a record with 1 added to the checksum that it holds
WrongChecksum(line) ==
    SubSeq(line, 1, Len(line) - 2)
    \o HexText(<<(FromHex(SubSeq(line, Len(line) - 1, Len(line)))[1] + 1) % 256>>)

\* the text of an S-record with another character for its type
OfType(line, c) == <<"S", c>> \o SubSeq(line, 3, Len(line))

\* The Intel Hex texts.  A text is made of items: data at an address a of the
\* model, an extended address, or a line as it is.  AddressField is the 16-bit
\* address of a Data record for the address a when extended is the extended
\* address in force; CanWrite holds of the items whose Data records reach their
\* addresses from the extended address in force; IhexTextOf is their text.
\* StartSegmentTexts are the texts of one Start Segment Address record.
IhexTexts ==
    LET DataItem(a, data) == [kind |-> "data", a |-> a, data |-> data]
        LinearItem(v) == [kind |-> "linear", v |-> v]
        SegmentItem(v) == [kind |-> "segment", v |-> v]
        LineItem(line) == [kind |-> "line", line |-> line]
        IhexItems ==
            {DataItem(0, <<0>>), DataItem(2, <<2, 3>>), DataItem(3, <<3>>),
             LinearItem(1), LinearItem(0), SegmentItem(4095), SegmentItem(4096),
             LineItem(IhexText(IHEX_END_OF_FILE, 0, <<>>)),
             LineItem(IhexText(IHEX_START_LINEAR_ADDRESS, 0, <<18, 52, 86, 120>>)),
             LineItem(WrongChecksum(IhexText(IHEX_DATA, 65533, <<0>>))),
             LineItem(IhexText(IHEX_UNSUPPORTED, 0, <<>>)),
             LineItem(IhexText(255, 0, <<>>))}
        AddressField(a, extended) == ModelAddress(extended, FileAddress(DecodeOrigin, a))
        RECURSIVE CanWrite(_, _)
        CanWrite(items, extended) ==
            IF Len(items) = 0 THEN TRUE
            ELSE IF items[1].kind = "data"
            THEN AddressField(items[1].a, extended) \in 0..65535
                 /\ CanWrite(Tail(items), extended)
            ELSE IF items[1].kind = "linear" THEN CanWrite(Tail(items), <<items[1].v, 0>>)
            ELSE IF items[1].kind = "segment"
            THEN CanWrite(Tail(items), AddressOf(items[1].v * 16))
            ELSE CanWrite(Tail(items), extended)
        RECURSIVE IhexTextOf(_, _)
        IhexTextOf(items, extended) ==
            IF Len(items) = 0 THEN <<>>
            ELSE IF items[1].kind = "data"
            THEN <<IhexText(IHEX_DATA, AddressField(items[1].a, extended), items[1].data)>>
                 \o IhexTextOf(Tail(items), extended)
            ELSE IF items[1].kind = "linear"
            THEN <<IhexText(IHEX_EXTENDED_LINEAR_ADDRESS, 0, WordBytes(items[1].v))>>
                 \o IhexTextOf(Tail(items), <<items[1].v, 0>>)
            ELSE IF items[1].kind = "segment"
            THEN <<IhexText(IHEX_EXTENDED_SEGMENT_ADDRESS, 0, WordBytes(items[1].v))>>
                 \o IhexTextOf(Tail(items), AddressOf(items[1].v * 16))
            ELSE <<items[1].line>> \o IhexTextOf(Tail(items), extended)
        StartSegmentTexts ==
            {<<IhexText(IHEX_START_SEGMENT_ADDRESS, 0, WordBytes(high) \o WordBytes(low))>> :
                high \in {0, 1, 2, 4660, 65535}, low \in {0, 1, 2, 16, 65535}}
    IN  {IhexTextOf(items, <<0, 0>>) :
            items \in {t \in TextsUpTo(IhexItems, MaxLines) : CanWrite(t, <<0, 0>>)}}
        \cup StartSegmentTexts

\* The S-record texts
SrecTexts ==
    LET SrecLines ==
            {SrecText(SREC_HEADER, <<0, 0>>, <<104>>),
             SrecText(SREC_A16_DATA, FileAddress(DecodeOrigin, 0), <<0>>),
             SrecText(SREC_A24_DATA, FileAddress(DecodeOrigin, 2), <<2, 3>>),
             SrecText(SREC_A32_DATA, FileAddress(DecodeOrigin, 3), <<3>>),
             SrecText(SREC_A16_COUNT, <<0, 2>>, <<>>),
             SrecText(SREC_A16_START, <<0, 4660>>, <<>>),
             SrecText(SREC_A32_START, <<4660, 22136>>, <<>>),
             WrongChecksum(SrecText(SREC_A16_DATA, FileAddress(DecodeOrigin, 0), <<0>>)),
             OfType(SrecText(SREC_A16_DATA, <<0, 0>>, <<>>), "4"),
             OfType(SrecText(SREC_A16_DATA, <<0, 0>>, <<>>), "A"),
             OfType(SrecText(SREC_A16_DATA, <<0, 0>>, <<>>), "f"),
             <<" ">>}
    IN  TextsUpTo(SrecLines, MaxLines)

InitDecode ==
    /\ segs = <<>>
    /\ start_address = None
    /\ header = <<>>
    /\ origin = DecodeOrigin
    /\ ret = <<>>
    /\ merged = <<>>
    /\ pc = "text"
    /\ err = NoError
    /\ call = NoCall
    /\ pre = [segs |-> segs, self |-> EmptySegment]
    /\ self = EmptySegment

DecodeSrec ==
    /\ pc = "text"
    /\ \E text \in SrecTexts, overwrite \in BOOLEAN :
        /\ \E r \in {ReadSrec(text, overwrite, origin)} : Loaded(r)
        /\ call' = [op |-> "read_srec", text |-> text, overwrite |-> overwrite]
    /\ pc' = "done"
    /\ UNCHANGED <<pre, self, ret, origin, merged>>

DecodeIhex ==
    /\ pc = "text"
    /\ \E text \in IhexTexts, overwrite \in BOOLEAN :
        /\ \E r \in {ReadIhex(text, overwrite, origin)} : Loaded(r)
        /\ call' = [op |-> "read_ihex", text |-> text, overwrite |-> overwrite]
    /\ pc' = "done"
    /\ UNCHANGED <<pre, self, ret, origin, merged>>

SpecDecode == InitDecode /\ [][DecodeSrec \/ DecodeIhex]_vars

------------------------------------------------------------------------------
(* A Segment object: it is created, then its address and its data are assigned *)
(* and it is split, until an assignment raises.  The addresses asked for go     *)
(* from below 0 to beyond the address space.                                    *)

InitSegment ==
    /\ segs = <<>>
    /\ pc = "new"
    /\ err = NoError
    /\ call = NoCall
    /\ pre = [segs |-> <<>>, self |-> EmptySegment]
    /\ NoMemory
    /\ self = EmptySegment

\* Segment(data, addrlo); no object is built when __init__ raises
CreateSegment ==
    /\ pc = "new"
    /\ \E addrlo \in -1..(AddrLimit + 1), k \in 0..MaxLen :
        \E r \in {NewSegment(OwnData(0, k), addrlo)} :
            /\ self' = IF r.err = NoError THEN r.seg ELSE self
            /\ err' = r.err
            /\ pc' = IF r.err = NoError THEN "object" ELSE "failed"
            /\ call' = [op |-> "Segment", addrlo |-> addrlo, data |-> OwnData(0, k)]
    /\ pre' = [segs |-> <<>>, self |-> self]
    /\ UNCHANGED segs
    /\ UNCHANGED memvars

\* self.addrlo = value
AssignAddrlo ==
    /\ pc = "object"
    /\ \E value \in -1..(AddrLimit + 1) :
        \E r \in {SetAddrlo(self, value)} :
            /\ self' = r.seg
            /\ err' = r.err
            /\ pc' = IF r.err = NoError THEN "object" ELSE "failed"
            /\ call' = [op |-> "addrlo", addrlo |-> value, data |-> self.data]
    /\ pre' = [segs |-> <<>>, self |-> self]
    /\ UNCHANGED segs
    /\ UNCHANGED memvars

\* self.data = value
AssignData ==
    /\ pc = "object"
    /\ \E k \in 0..MaxLen :
        \E r \in {SetData(self, OwnData(1, k))} :
            /\ self' = r.seg
            /\ err' = r.err
            /\ pc' = IF r.err = NoError THEN "object" ELSE "failed"
            /\ call' = [op |-> "data", addrlo |-> self.addrlo, data |-> OwnData(1, k)]
    /\ pre' = [segs |-> <<>>, self |-> self]
    /\ UNCHANGED segs
    /\ UNCHANGED memvars

\* self.split(bytes_per_seg), bytes_per_seg at least 1
SplitSegment ==
    /\ pc = "object"
    /\ \E bytes_per_seg \in 1..(MaxLen + 1) :
        /\ ret' = split(self, bytes_per_seg)
        /\ call' = [op |-> "split", bytes_per_seg |-> bytes_per_seg]
    /\ pre' = [segs |-> <<>>, self |-> self]
    /\ err' = NoError
    /\ UNCHANGED <<segs, pc, self, start_address, header, origin, merged>>

SpecSegment ==
    InitSegment /\ [][CreateSegment \/ AssignAddrlo \/ AssignData \/ SplitSegment]_vars

------------------------------------------------------------------------------
(* hex.main once the input files are read: the custom data is written, the gaps *)
(* are filled, ranges are kept and removed, the span is compared with the limit *)
(* and the image is written.  The limit is a number of megabytes; MEGABYTE is   *)
(* the megabyte of the scaled address space.                                    *)

MEGABYTE == 2

\* The body of main from write_custom_data on, on the list of memory.segments.
\* args holds the options as parse_cmdline leaves them: write_data and
\* write_value are lists of DATA@ADDR, once through bytes.fromhex and int, keep
\* and remove are lists of tokens A-B, fill is the bytes of the pattern.
\* WriteCustomData is the loop of write_custom_data from the k-th item on,
\* RemoveRanges the loop of remove_ranges; DataWritten, ValueWritten, Filled,
\* Kept and Removed are the rest of main once the two write_custom_data,
\* fill_unused_memory, keep_ranges and remove_ranges returned or raised.
\* written tells that write_output was reached.
Main(list, args) ==
    LET MemorySpanExceedsLimitError(span, limit) ==
            [name |-> "MemorySpanExceedsLimitError", span |-> span, limit |-> limit]
        limit_bytes == args.limit * MEGABYTE
        InByteOrder(data, little_endian) ==
            IF little_endian THEN [i \in 1..Len(data) |-> data[Len(data) + 1 - i]] ELSE data
        RECURSIVE WriteCustomData(_, _, _, _)
        WriteCustomData(l, custom_data_list, little_endian, k) ==
            IF k > Len(custom_data_list) THEN [segs |-> l, err |-> NoError]
            ELSE LET segment == NewSegment(InByteOrder(custom_data_list[k].data, little_endian),
                                           custom_data_list[k].addrlo)
                     added == SegmentsAdd(l, <<segment.seg>>, FALSE)
                 IN  IF segment.err # NoError THEN [segs |-> l, err |-> segment.err]
                     ELSE IF added.err # NoError THEN added
                     ELSE WriteCustomData(added.segs, custom_data_list, little_endian, k + 1)
        RECURSIVE RemoveRanges(_, _)
        RemoveRanges(l, k) ==
            IF k > Len(args.remove) THEN l
            ELSE RemoveRanges(SegmentsRemove(l, ParseAddrRange(args.remove[k]).addrlo,
                                             ParseAddrRange(args.remove[k]).addrhi), k + 1)
        Failed(l, e) == [segs |-> l, err |-> e, written |-> FALSE]
        Written(l) == [segs |-> l, err |-> NoError, written |-> TRUE]
        Removed(l) ==
            IF SegmentsSpan(l) > limit_bytes
            THEN Failed(l, MemorySpanExceedsLimitError(SegmentsSpan(l), args.limit))
            ELSE Written(l)
        Kept(r) ==
            IF r.err # NoError THEN Failed(r.segs, r.err) ELSE Removed(RemoveRanges(r.segs, 1))
        Filled(r) ==
            IF r.err # NoError THEN Failed(r.segs, r.err)
            ELSE Kept(KeepRanges(r.segs, args.keep))
        ValueWritten(r) ==
            IF r.err # NoError THEN Failed(r.segs, r.err)
            ELSE IF SegmentsSpan(r.segs) = 0 THEN Written(r.segs)
            ELSE Filled(IF args.fill # <<>> THEN SegmentsFill(r.segs, args.fill) ELSE r)
        DataWritten(r) ==
            IF r.err # NoError THEN Failed(r.segs, r.err)
            ELSE ValueWritten(WriteCustomData(r.segs, args.write_value, TRUE, 1))
    IN  DataWritten(WriteCustomData(list, args.write_data, FALSE, 1))

\* One run of main on the image read from the input files
RunMain ==
    /\ pc = "built"
    /\ \E custom \in {<<<<>>, <<>>>>,
                      <<<<[data |-> <<9>>, addrlo |-> AddrLimit - 1]>>, <<>>>>,
                      <<<<>>, <<[data |-> <<8, 9>>, addrlo |-> 0]>>>>},
          fill \in {<<>>, <<255>>},
          keep \in {<<>>, <<<<0, 2>>>>},
          remove \in {<<>>} \cup {<<<<a, a + n>>>> : a \in 0..(AddrLimit - 1), n \in 0..1},
          limit \in 1..3 :
        LET args == [write_data |-> custom[1], write_value |-> custom[2], fill |-> fill,
                     keep |-> keep, remove |-> remove, limit |-> limit]
        IN  \E r \in {Main(segs, args)} :
                /\ segs' = r.segs
                /\ err' = r.err
                /\ pc' = IF r.written THEN "written" ELSE "failed"
                /\ call' = [op |-> "main", args |-> args]
    /\ pre' = [segs |-> segs, self |-> EmptySegment]
    /\ UNCHANGED self
    /\ UNCHANGED memvars

SpecMain == InitRemove /\ [][RunMain]_vars

------------------------------------------------------------------------------
(* What the properties speak of: addresses and the bytes they hold *)

SetMin(S) == CHOOSE x \in S : \A y \in S : x <= y
SetMax(S) == CHOOSE x \in S : \A y \in S : x >= y

\* the addresses a Segment holds data at, and its byte at one of them
Range(seg) == seg.addrlo .. (seg.addrlo + Len(seg.data) - 1)
ByteOf(seg, a) == seg.data[a - seg.addrlo + 1]

\* the address-to-byte map of a Segment and of a list, as a set of pairs
SegMap(seg) == {<<a, ByteOf(seg, a)>> : a \in Range(seg)}
MapOf(list) == UNION {SegMap(list[i]) : i \in 1..Len(list)}
Addresses(list) == {p[1] : p \in MapOf(list)}

\* the ordering invariant of a collection: segments not empty, strictly
\* ascending, no two of them overlapping or adjacent
Ordered(list) ==
    /\ \A i \in 1..Len(list) : Len(list[i].data) > 0
    /\ \A i, j \in 1..Len(list) :
        i < j => list[i].addrlo + Len(list[i].data) < list[j].addrlo

\* the arguments of the call, and the receiver when it was called
Arg == call.segments[1]
Was == pre.self
Shared == Range(Was) \cap Range(Arg)
Differing == {a \in Shared : ByteOf(Was, a) # ByteOf(Arg, a)}

\* the receiver of Segment.add spans both operands and holds, at every address,
\* the byte of Arg where Arg defines one and its own byte elsewhere
SelfIsUnion ==
    /\ self.addrlo = Min(Was.addrlo, Arg.addrlo)
    /\ self.addrlo + Len(self.data) =
           Max(Was.addrlo + Len(Was.data), Arg.addrlo + Len(Arg.data))
    /\ SegMap(self) = {p \in SegMap(Was) : p[1] \notin Range(Arg)} \cup SegMap(Arg)

------------------------------------------------------------------------------
(* Properties *)

\* C1: after any sequence of successful Segments.add calls starting from the
\* empty collection, the stored segments are all non-empty, sorted strictly
\* ascending by base address, and no two of them overlap or are adjacent.
C1_AddKeepsOrder == pc = "input" => Ordered(segs)

C1_Witness ==
    /\ pc = "input"
    /\ call.op = "add"
    /\ Len(segs) >= 2
    /\ \E i \in 1..Len(segs) : Len(segs[i].data) > MaxLen

\* C2: a successful Segments.add(seg, overwrite) changes the address-to-byte map
\* to the prior map overridden by seg's bytes on seg's range, and nothing else;
\* the list is again one segment for each maximal run of data, in address order.
C2_AddOverridesRange ==
    (pc = "done" /\ call.op = "add" /\ err = NoError) =>
        /\ MapOf(segs) = {p \in MapOf(pre.segs) : p[1] \notin Range(Arg)} \cup SegMap(Arg)
        /\ Ordered(segs)

C2_Witness ==
    /\ pc = "done" /\ call.op = "add" /\ err = NoError
    /\ call.overwrite
    /\ Cardinality({i \in 1..Len(pre.segs) : Range(pre.segs[i]) \cap Range(Arg) # {}}) >= 2
    /\ \E p \in MapOf(pre.segs) : p[1] \in Range(Arg) /\ p \notin MapOf(segs)
    /\ \E p \in MapOf(pre.segs) : p[1] \notin Range(Arg)
    /\ Len(segs) = 1

\* C3: for valid segments A and B that overlap and carry identical bytes at every
\* shared address, A.add(B, overwrite=false) succeeds and leaves A the union of
\* the two, for both orders of the bases and up to the last address.
C3_IdenticalOverlapUnion ==
    (pc = "done" /\ call.op = "Segment.add" /\ ~call.overwrite
        /\ Shared # {} /\ Differing = {}) =>
        err = NoError /\ SelfIsUnion

C5_GapIsRefused ==
    (pc = "done" /\ call.op = "Segment.add"
        /\ Range(Was) # {} /\ Range(Arg) # {}
        /\ (SetMax(Range(Was)) + 1 < Arg.addrlo \/ SetMax(Range(Arg)) + 1 < Was.addrlo)) =>
        err = NonSequentialDataError /\ self = Was

C5_Witness ==
    /\ pc = "done" /\ call.op = "Segment.add" /\ call.overwrite
    /\ Range(Was) # {} /\ Range(Arg) # {}
    /\ SetMax(Range(Arg)) + 1 < Was.addrlo
    /\ err = NonSequentialDataError

\* C6: for overlapping A and B, A.add(B, overwrite=true) raises nothing and
\* leaves A spanning both, with B's byte at every address of B and A's prior
\* byte at every other address, for every relative alignment.
C6_OverwriteSplices ==
    (pc = "done" /\ call.op = "Segment.add" /\ call.overwrite /\ Shared # {}) =>
        err = NoError /\ SelfIsUnion

\* C7: for a collection of n >= 2 segments and a non-empty pattern, fill closes
\* all n-1 gaps: one segment remains, spanning from the old lowest address to
\* the old highest, every byte defined before is unchanged, and each former gap
\* holds the pattern repeated from the gap's first address.
C7_FillClosesEveryGap ==
    (pc = "done" /\ call.op = "fill" /\ Ordered(pre.segs) /\ Len(pre.segs) >= 2) =>
        /\ err = NoError
        /\ Len(segs) = 1
        /\ segs[1].addrlo = pre.segs[1].addrlo
        /\ SetMax(Range(segs[1])) = SetMax(Range(pre.segs[Len(pre.segs)]))
        /\ MapOf(segs) =
               MapOf(pre.segs) \cup
               UNION {{<<a, call.fill[((a - SetMax(Range(pre.segs[i])) - 1) % Len(call.fill)) + 1]>> :
                          a \in (SetMax(Range(pre.segs[i])) + 1) .. (pre.segs[i + 1].addrlo - 1)} :
                         i \in 1..(Len(pre.segs) - 1)}

\* C8: fill with a non-empty pattern raises nothing on a collection that
\* satisfies the ordering invariant, whatever the number of segments and
\* whatever their bytes.
C8_FillNeverFails ==
    (pc = "done" /\ call.op = "fill" /\ Ordered(pre.segs)) => err = NoError

\* the parts of seg below lo and from hi up, those that hold data, in order
RECURSIVE OutsideParts(_, _, _)
OutsideParts(list, lo, hi) ==
    IF Len(list) = 0 THEN <<>>
    ELSE LET seg == list[1]
             below == Cardinality({a \in Range(seg) : a < lo})
             above == Cardinality({a \in Range(seg) : a >= hi})
             whole == below + above = Len(seg.data)
         IN  (IF whole THEN <<seg>>
              ELSE (IF below > 0
                    THEN <<[addrlo |-> seg.addrlo, data |-> SubSeq(seg.data, 1, below)]>>
                    ELSE <<>>)
                   \o (IF above > 0
                       THEN <<[addrlo |-> hi,
                               data |-> SubSeq(seg.data, Len(seg.data) - above + 1,
                                               Len(seg.data))]>>
                       ELSE <<>>))
             \o OutsideParts(Tail(list), lo, hi)

HoldingData(seg) == Len(seg.data) > 0

\* C9: after remove(low, high) with low < high the address-to-byte map is the
\* prior map restricted to the addresses outside [low, high); the data left is
\* held as each prior segment's parts outside the window: none for a segment
\* inside it, the segment itself when outside, one part when it straddles one
\* boundary, two when it straddles both.
C9_RemoveRestrictsMap ==
    (pc \in {"removed", "done"} /\ call.op = "remove") =>
        /\ MapOf(segs) =
               {p \in MapOf(pre.segs) : p[1] < call.addrlo \/ p[1] >= call.addrhi}
        /\ SelectSeq(segs, HoldingData) =
               OutsideParts(SelectSeq(pre.segs, HoldingData), call.addrlo, call.addrhi)

C9_Witness ==
    /\ pc = "removed" /\ call.op = "remove"
    /\ Len(pre.segs) >= 3
    /\ \E i \in 1..Len(pre.segs) :
           pre.segs[i].addrlo < call.addrlo /\ call.addrhi <= SetMax(Range(pre.segs[i]))
    /\ Len(segs) = Len(pre.segs) + 1
    /\ MapOf(segs) # MapOf(pre.segs)

\* C10: after remove(low, high) with low < high on a collection that satisfies
\* the ordering invariant, the collection again holds only non-empty segments,
\* ascending, no two overlapping or adjacent, and addrlo, addrhi and span are
\* the lowest data address, one past the highest, and their difference.
C10_RemoveKeepsOrder ==
    (pc \in {"removed", "done"} /\ call.op = "remove" /\ Ordered(pre.segs)) =>
        /\ Ordered(segs)
        /\ Addresses(segs) # {} =>
               /\ SegmentsAddrlo(segs) = SetMin(Addresses(segs))
               /\ SegmentsAddrhi(segs) = SetMax(Addresses(segs)) + 1
               /\ SegmentsSpan(segs) = SetMax(Addresses(segs)) + 1 - SetMin(Addresses(segs))
        /\ Addresses(segs) = {} =>
               SegmentsAddrlo(segs) = 0 /\ SegmentsAddrhi(segs) = 0 /\ SegmentsSpan(segs) = 0

\* the part of each segment of list inside [lo, hi), for those that have one
RECURSIVE InsideParts(_, _, _)
InsideParts(list, lo, hi) ==
    IF Len(list) = 0 THEN <<>>
    ELSE LET seg == list[1]
             inside == {a \in Range(seg) : lo <= a /\ a < hi}
         IN  (IF inside = {} THEN <<>>
              ELSE <<[addrlo |-> SetMin(inside),
                      data |-> [i \in 1..Cardinality(inside) |->
                                   ByteOf(seg, SetMin(inside) + i - 1)]]>>)
             \o InsideParts(Tail(list), lo, hi)

\* C11: getrange(low, high) on a collection that satisfies the ordering invariant
\* returns, in ascending order, one segment for each stored segment that
\* intersects [low, high), equal to that segment clipped to the window, none of
\* them empty, and leaves the collection unchanged; keeping the inclusive range
\* A-B leaves exactly the bytes at the addresses A..B.
C11_GetRangeClips ==
    /\ (pc = "done" /\ call.op = "getrange" /\ Ordered(pre.segs)) =>
        /\ ret = InsideParts(pre.segs, call.addrlo, call.addrhi)
        /\ \A i \in 1..Len(ret) : Len(ret[i].data) > 0
        /\ segs = pre.segs
    /\ (pc = "done" /\ call.op = "keep" /\ Ordered(pre.segs)) =>
        /\ err = NoError
        /\ MapOf(segs) = {p \in MapOf(pre.segs) : call.addrlo <= p[1] /\ p[1] <= call.addrhi}
        /\ Ordered(segs)

C11_Witness ==
    /\ pc = "done" /\ call.op = "getrange"
    /\ Len(pre.segs) >= 3
    /\ Len(ret) = 2
    /\ ret[1] # pre.segs[1] /\ ret[1] # pre.segs[2]
    /\ ret[2] = pre.segs[3]

------------------------------------------------------------------------------
(* Written and read back *)

\* the data records of a written file hold fewer bytes than some segment
SplitInChunks ==
    \E i \in 1..Len(pre.segs) : Len(pre.segs[i].data) > call.bytes_per_line

\* C12: an image with a valid segment collection and any start address, written
\* by write_srec with or without a count record and read back by read_srec, has
\* the segments and the start address it had; no start address stays none and
\* the start address 0 stays 0.
C12_SrecRoundTrip ==
    pc = "done" =>
        /\ err = NoError
        /\ segs = pre.segs
        /\ start_address = pre.start_address

\* a two-segment image at the top of the address space, split in chunks, with a
\* count record and the start address 0, was written and read back
C12_Witness ==
    /\ pc = "done"
    /\ call.op = "write_srec"
    /\ call.show_count
    /\ Len(pre.segs) >= 2
    /\ SplitInChunks
    /\ pre.start_address = <<0, 0>>
    /\ origin[1] = 65535
    /\ segs = pre.segs

\* a chunk of the written file starts in the 64 KiB page that the origin lies
\* in and ends in the next page
ChunkCrossesPage ==
    \E i \in 1..Len(pre.segs) :
        /\ Len(pre.segs[i].data) <= call.bytes_per_line
        /\ FileAddress(origin, pre.segs[i].addrlo)[1] = origin[1]
        /\ FileAddress(origin, pre.segs[i].addrlo + Len(pre.segs[i].data) - 1)[1] = origin[1] + 1

\* C13: an image with a valid segment collection anywhere in the 32-bit address
\* space and any start address, written by write_ihex and read back by
\* read_ihex, has the segments and the start address it had, also when a chunk
\* starts in one 64 KiB page and ends in the next.
C13_IhexRoundTrip ==
    (pc = "done" /\ call.op = "write_ihex") =>
        /\ err = NoError
        /\ segs = pre.segs
        /\ start_address = pre.start_address

\* an image of two segments, one of them a chunk across the end of a 64 KiB
\* page above the first, with a start address, was written and read back
C13_Witness ==
    /\ pc = "done"
    /\ call.op = "write_ihex"
    /\ Len(pre.segs) >= 2
    /\ ChunkCrossesPage
    /\ origin[1] = 255
    /\ pre.start_address = <<65535, 65535>>
    /\ segs = pre.segs

------------------------------------------------------------------------------
(* The records of a written Intel Hex file *)

\* the k-th record of the file and its type, which the two characters after
\* the count and the address are; the places of the records of one type; the
\* number of records before the start address and the end of the file
Record(k) == ParseIhexLine(ret[k])
TypeOf(k) == 16 * HexValue(ret[k][8]) + HexValue(ret[k][9])
RecordsOfType(rectype) == {k \in 1..Len(ret) : TypeOf(k) = rectype}
BodyLen == Len(ret) - (IF start_address # None THEN 2 ELSE 1)
DataRecords == RecordsOfType(IHEX_DATA)

\* the high word in force at the k-th record: that of the last Extended Linear
\* Address record before it, 0 when there is none
PageInForce(k) ==
    LET before == {j \in RecordsOfType(IHEX_EXTENDED_LINEAR_ADDRESS) : j < k}
    IN  IF before = {} THEN 0 ELSE IntFromBytes(Record(SetMax(before)).data)

\* the address of the model that the k-th record, a Data record, puts its first
\* byte at, and the bytes it holds by address
BaseOf(k) == ModelAddress(origin, <<PageInForce(k), Record(k).address>>)
ChunkOf(k) == [addrlo |-> BaseOf(k), data |-> Record(k).data]

\* the Data record that follows the j-th record, a Data record
NextData(j, k) == j < k /\ \A i \in DataRecords : ~(j < i /\ i < k)

\* C20: write_ihex prints, in this order, the Data records in ascending address
\* order, each with the low 16 bits of the base address of its chunk and after
\* Extended Linear Address records of which the last one (0 when there is none)
\* is the high 16 bits of that address; then one Start Linear Address record
\* with the 32-bit start address if and only if a start address is set; then
\* one End Of File record, which is the last record, also of an empty image.
C20_IhexRecordOrder ==
    (pc = "written" /\ call.op = "write_ihex") =>
        /\ \A k \in 1..Len(ret) : Record(k).err = NoError /\ Record(k).rectype = TypeOf(k)
        /\ \A k \in 1..BodyLen : TypeOf(k) \in {IHEX_DATA, IHEX_EXTENDED_LINEAR_ADDRESS}
        /\ \A k \in DataRecords :
               /\ Len(Record(k).data) \in 1..call.bytes_per_line
               /\ FileAddress(origin, BaseOf(k)) = <<PageInForce(k), Record(k).address>>
               /\ SegMap(ChunkOf(k)) \subseteq MapOf(segs)
        /\ \A j \in DataRecords, k \in DataRecords :
               NextData(j, k) => BaseOf(j) + Len(Record(j).data) <= BaseOf(k)
        /\ UNION {Range(ChunkOf(k)) : k \in DataRecords} = Addresses(segs)
        /\ start_address # None =>
               /\ TypeOf(Len(ret) - 1) = IHEX_START_LINEAR_ADDRESS
               /\ FromBytes(Record(Len(ret) - 1).data) = start_address
        /\ TypeOf(Len(ret)) = IHEX_END_OF_FILE
        /\ Record(Len(ret)).data = <<>>

\* a file was written of an image with a start address that has data in two
\* 64 KiB pages: Data records, an Extended Linear Address record, Data records,
\* the start address, the end of the file
C20_Witness ==
    /\ pc = "written"
    /\ call.op = "write_ihex"
    /\ start_address = <<1, 0>>
    /\ origin = <<0, 65533>>
    /\ Cardinality(RecordsOfType(IHEX_EXTENDED_LINEAR_ADDRESS)) = 1
    /\ \E j \in DataRecords, k \in DataRecords : PageInForce(j) = 0 /\ PageInForce(k) = 1
    /\ TypeOf(Len(ret)) = IHEX_END_OF_FILE

------------------------------------------------------------------------------
(* Merged into the image *)

\* the start addresses of the inputs merged so far that had one
MergedStarts == {merged[i].start_address : i \in 1..Len(merged)} \ {None}

\* C14: when Memory.add merges M into T, T keeps its start address if M has
\* none or the same; T takes the start address of M if T has none; if both have
\* one and they differ, the call raises StartAddressError with the start address
\* and the segments of T as they were, unless last_start is asked for, and then
\* T takes the start address of M.  So after merges without last_start the start
\* address of T is the one value that all merged inputs that had one share.
C14_StartAddressMerge ==
    call.op = "add" =>
        /\ (call.memory.start_address = None \/ call.memory.start_address = pre.start_address)
               => (start_address = pre.start_address /\ err # StartAddressError)
        /\ (call.memory.start_address # None /\ pre.start_address = None)
               => (start_address = call.memory.start_address /\ err # StartAddressError)
        /\ (/\ call.memory.start_address # None
            /\ pre.start_address # None
            /\ call.memory.start_address # pre.start_address)
               => IF call.last_start
                  THEN start_address = call.memory.start_address /\ err # StartAddressError
                  ELSE /\ err = StartAddressError
                       /\ start_address = pre.start_address
                       /\ segs = pre.segs
        /\ (\A i \in 1..Len(merged) : ~merged[i].last_start)
               => IF MergedStarts = {} THEN start_address = None
                  ELSE MergedStarts = {start_address}

\* an image that took its start address from an earlier input and holds data
\* refused, without last_start, an input with data and another start address
C14_Witness ==
    /\ call.op = "add"
    /\ err = StartAddressError
    /\ ~call.last_start
    /\ Len(merged) >= 2
    /\ \A i \in 1..Len(merged) : ~merged[i].last_start
    /\ MergedStarts = {<<0, 0>>}
    /\ call.memory.start_address = <<0, 4660>>
    /\ Len(call.memory.segs) > 0
    /\ Len(segs) > 0

------------------------------------------------------------------------------
(* Relocated *)

\* the map of the bytes of list with offset added to every address
MovedBy(list, offset) == {<<p[1] + offset, p[2]>> : p \in MapOf(list)}

\* the map old with the bytes of the map new put over it
PutOver(old, new) == new \cup {p \in old : \A q \in new : q[1] # p[1]}

\* the image that was read from file@ADDR is merged with ADDR added to the base
\* address of each of its segments
C15_AddsAddress ==
    (call.op = "read_input" /\ call.token.at /\ err = NoError) =>
        MapOf(segs) = PutOver(MapOf(pre.segs), MovedBy(call.image, call.token.address))

\* C15: reading file@ADDR moves the image of the file so that its lowest segment
\* starts at ADDR: it adds ADDR less the lowest base address of the image to the
\* base address of every segment, with the bytes and the layout as they were,
\* before the image is merged.
C15_MovesToAddress ==
    (call.op = "read_input" /\ call.token.at /\ err = NoError) =>
        MapOf(segs) = PutOver(MapOf(pre.segs),
                              MovedBy(call.image,
                                      call.token.address - SegmentsAddrlo(call.image)))

\* a file of two segments that starts above address 0 was moved to another
\* address and merged into an image that held data
C15_Witness ==
    /\ call.op = "read_input"
    /\ call.token.at
    /\ err = NoError
    /\ Len(call.image) >= 2
    /\ SegmentsAddrlo(call.image) > 0
    /\ call.token.address > SegmentsAddrlo(call.image)
    /\ Len(pre.segs) > 0
    /\ Cardinality(MapOf(segs)) = Cardinality(MapOf(pre.segs)) + Cardinality(MapOf(call.image))

------------------------------------------------------------------------------
(* Read from a file *)

\* the lines of the text that are records of a format, by their first character
RecordsIn(lines, mark) == {k \in 1..Len(lines) : Len(lines[k]) > 1 /\ lines[k][1] = mark}

\* the S-record of line k of the text read, and the records of the text of some
\* types
SrecOf(k) == ParseSrecLine(call.file.lines[k])
SrecOfType(types) == {k \in RecordsIn(call.file.lines, "S") : SrecOf(k).rectype \in types}

\* the Intel Hex record of line k of the text read, and the records of one type
IhexOf(k) == ParseIhexLine(call.file.lines[k])
IhexOfType(rectype) == {k \in RecordsIn(call.file.lines, ":") : IhexOf(k).rectype = rectype}

\* the bytes of the file as one Segment at address 0; an empty file has none
BinaryImage ==
    /\ segs = IF Len(call.file.binary) = 0 THEN <<>>
              ELSE <<[addrlo |-> 0, data |-> call.file.binary]>>
    /\ start_address = None
    /\ header = <<>>

\* what the S-records of the text hold, and nothing else
SrecImage ==
    /\ MapOf(segs) = UNION {SegMap([addrlo |-> SrecOf(k).address[2], data |-> SrecOf(k).data]) :
                              k \in SrecOfType({SREC_A16_DATA})}
    /\ start_address = IF SrecOfType({SREC_A16_START}) = {} THEN None
                       ELSE SrecOf(SetMax(SrecOfType({SREC_A16_START}))).address
    /\ header = IF SrecOfType({SREC_HEADER}) = {} THEN <<>>
                ELSE <<SrecOf(SetMax(SrecOfType({SREC_HEADER}))).data>>

\* what the Intel Hex records of the text hold, and nothing else
IhexImage ==
    /\ MapOf(segs) = UNION {SegMap([addrlo |-> IhexOf(k).address, data |-> IhexOf(k).data]) :
                              k \in IhexOfType(IHEX_DATA)}
    /\ start_address = IF IhexOfType(IHEX_START_LINEAR_ADDRESS) = {} THEN None
                       ELSE FromBytes(IhexOf(SetMax(IhexOfType(IHEX_START_LINEAR_ADDRESS))).data)
    /\ header = <<>>

\* C16: Memory.read loads bytes that are no UTF-8 as binary.  It takes a text
\* for S-records; only if these give no segment it takes it for Intel Hex, and
\* only if that gives no segment either it loads the bytes of the file as
\* binary, one segment at address 0.  A text with an S-record that holds data is
\* never taken for anything else, and the header and the start address of an
\* attempt that gave no segment are gone before the next.
C16_DecoderOrder ==
    call.op = "read" =>
        /\ err = NoError
        /\ IF ~call.file.utf8 THEN BinaryImage
           ELSE IF SrecOfType({SREC_A16_DATA}) # {} THEN SrecImage
           ELSE IF IhexOfType(IHEX_DATA) # {} THEN IhexImage
           ELSE BinaryImage

\* a text with a header and a start address as S-records, but data as Intel Hex
\* only, was read into a Memory that held an image: the Memory holds the Intel
\* Hex data, no header and no start address
C16_Witness ==
    /\ call.op = "read"
    /\ call.file.utf8
    /\ SrecOfType({SREC_HEADER}) # {}
    /\ SrecOfType({SREC_A16_START}) # {}
    /\ SrecOfType({SREC_A16_DATA}) = {}
    /\ IhexOfType(IHEX_DATA) # {}
    /\ Len(pre.segs) > 0
    /\ segs = <<[addrlo |-> 2, data |-> <<2>>]>>
    /\ header = <<>>
    /\ start_address = None

------------------------------------------------------------------------------
(* Decoded from a text *)

\* the lines of the text decoded that hold a record, and the bytes of the
\* record of line k: the count, the address, for Intel Hex the type, the data,
\* the checksum
Mark == IF call.op = "read_srec" THEN "S" ELSE ":"
RecordLines == RecordsIn(call.text, Mark)
BytesOf(k) ==
    IF call.op = "read_srec" THEN FromHex(SubSeq(call.text[k], 3, Len(call.text[k])))
    ELSE FromHex(Tail(call.text[k]))

\* the checksum that line k holds, and the one that its other bytes have: the
\* one's complement of the low byte of their sum for an S-record, the two's
\* complement for Intel Hex
Stored(k) == BytesOf(k)[Len(BytesOf(k))]
Correct(k) ==
    IF call.op = "read_srec" THEN 255 - ((Sum(BytesOf(k)) - Stored(k)) % 256)
    ELSE (256 - ((Sum(BytesOf(k)) - Stored(k)) % 256)) % 256
WrongSums == {k \in RecordLines : Stored(k) # Correct(k)}

\* C17: in both formats a record that holds another checksum than that of its
\* other bytes fails with ChecksumError, with the checksum of the other bytes as
\* the expected one and the one it holds as the actual one; a record that holds
\* the checksum of its other bytes raises no ChecksumError.
C17_ChecksumError ==
    call.op \in {"read_srec", "read_ihex"} =>
        /\ err.name = "ChecksumError" =>
               /\ err.line_number \in WrongSums
               /\ err.a = Correct(err.line_number)
               /\ err.b = Stored(err.line_number)
        /\ WrongSums # {} =>
               /\ IsFileContentError(err)
               /\ err.line_number <= SetMin(WrongSums)
               /\ err.line_number = SetMin(WrongSums) => err.name = "ChecksumError"

\* an S-record that holds its checksum plus 1 came after a record that was
\* loaded, and failed with the two checksums
C17_Witness ==
    /\ call.op = "read_srec"
    /\ err.name = "ChecksumError"
    /\ err.line_number > 1
    /\ err.b = (err.a + 1) % 256
    /\ Len(segs) > 0

\* the type of the record of line k, and the lines with a record of a type that
\* is not supported, with the checksum of its bytes and the count of its bytes
TypeIn(k) == IF call.op = "read_srec" THEN HexValue(call.text[k][2]) ELSE BytesOf(k)[4]
Unsupported(k) ==
    IF call.op = "read_srec" THEN TypeIn(k) = 4 \/ TypeIn(k) >= 10 ELSE TypeIn(k) >= 6
CountIn(k) ==
    IF call.op = "read_srec" THEN Len(BytesOf(k)) - 1 ELSE Len(BytesOf(k)) - 5
BadTypes ==
    {k \in RecordLines \ WrongSums : BytesOf(k)[1] = CountIn(k) /\ Unsupported(k)}

\* what the first n lines of the text decode to when they are all of it
Before(n) ==
    IF call.op = "read_srec" THEN ReadSrec(SubSeq(call.text, 1, n), call.overwrite, origin)
    ELSE ReadIhex(SubSeq(call.text, 1, n), call.overwrite, origin)

ExtendedRecords ==
    {k \in RecordLines :
        TypeIn(k) \in {IHEX_EXTENDED_SEGMENT_ADDRESS, IHEX_EXTENDED_LINEAR_ADDRESS}}
WordIn(k) == 256 * BytesOf(k)[5] + BytesOf(k)[6]
ExtendedAt(k) ==
    LET before == {j \in ExtendedRecords : j < k}
        last == SetMax(before)
    IN  IF before = {} THEN <<0, 0>>
        ELSE IF TypeIn(last) = IHEX_EXTENDED_LINEAR_ADDRESS THEN <<WordIn(last), 0>>
        ELSE AddressOf(WordIn(last) * 16)

\* the bytes that the Data record of line k holds, at the addresses of the
\* model that they belong at
DataAt(k) ==
    SegMap([addrlo |-> ModelAddress(origin, AddressPlus(ExtendedAt(k),
                                                         256 * BytesOf(k)[2] + BytesOf(k)[3])),
            data |-> SubSeq(BytesOf(k), 5, Len(BytesOf(k)) - 1)])

\* the bytes placed by the Data records of the first n lines
RECURSIVE Placed(_)
Placed(n) ==
    IF n = 0 THEN {}
    ELSE IF n \in RecordLines /\ TypeIn(n) = IHEX_DATA THEN PutOver(Placed(n - 1), DataAt(n))
    ELSE Placed(n - 1)

\* C19: read_ihex places the bytes of each Data record at E plus the 16-bit
\* address of the record, where E is 0 until the first extended address record
\* and then what the last one before the Data record set: its two bytes as a
\* number times 16 for an Extended Segment Address record, times 65536 for an
\* Extended Linear Address record.  An End Of File record does not end the
\* decoding and leaves E as it is: Data records after it are loaded.
C19_ExtendedAddress ==
    (call.op = "read_ihex" /\ err = NoError) => MapOf(segs) = Placed(Len(call.text))

\* an Extended Segment Address record, an End Of File record and a Data record
\* that reaches the next 64 KiB page were read: the data is in the image where
\* the extended address puts it
C19_Witness ==
    /\ call.op = "read_ihex"
    /\ err = NoError
    /\ Len(call.text) = 3
    /\ TypeIn(1) = IHEX_EXTENDED_SEGMENT_ADDRESS
    /\ WordIn(1) = 4095
    /\ TypeIn(2) = IHEX_END_OF_FILE
    /\ TypeIn(3) = IHEX_DATA
    /\ segs = <<[addrlo |-> 2, data |-> <<2, 3>>]>>

------------------------------------------------------------------------------
(* The records of a written S-record file *)

\* the type of the k-th line of an S-record file, and the lines of Data records
SrecTypeOf(k) == HexValue(ret[k][2])
SrecDataRecords == {k \in 1..Len(ret) : SrecTypeOf(k) \in {SREC_A16_DATA, SREC_A24_DATA, SREC_A32_DATA}}

\* the address in the file of the highest byte of the image, and an address is
\* at most 0xFFFF, at most 0xFFFFFF
HighestByte == FileAddress(origin, SetMax(Addresses(segs)))
AtMost16(address) == address[1] = 0
AtMost24(address) == address[1] <= 255
StartAtMost16 == start_address = None \/ AtMost16(start_address)
StartAtMost24 == start_address = None \/ AtMost24(start_address)

\* C21: write_srec writes all Data records with the narrowest address width in
\* which the address of the highest data byte and the start address both fit:
\* S1 when both are at most 0xFFFF, else S2 when both are at most 0xFFFFFF,
\* else S3.
C21_NarrowestWidth ==
    (pc = "written" /\ call.op = "write_srec") =>
        \A k \in SrecDataRecords :
            SrecTypeOf(k) = IF AtMost16(HighestByte) /\ StartAtMost16 THEN SREC_A16_DATA
                            ELSE IF AtMost24(HighestByte) /\ StartAtMost24 THEN SREC_A24_DATA
                            ELSE SREC_A32_DATA

\* the k-th line of an S-record file as _parse_srec_line reads it, the lines of
\* the records of some types, and the text of the header
SrecRecord(k) == ParseSrecLine(ret[k])
SrecRecordsOf(types) == {k \in 1..Len(ret) : SrecTypeOf(k) \in types}
HeaderText == JoinHeader(header)

\* the lines that come first, one after the other, in this order: the Header
\* record if there is one, the Data records, the Record Count record if there
\* is one, the Start Address record if there is one
InOrder(first, second) == \A j \in first, k \in second : j < k
SrecLayout ==
    /\ InOrder(SrecRecordsOf({SREC_HEADER}), SrecDataRecords)
    /\ InOrder(SrecRecordsOf({SREC_HEADER}) \cup SrecDataRecords,
               SrecRecordsOf({SREC_A16_COUNT, SREC_A24_COUNT}))
    /\ InOrder(SrecRecordsOf({SREC_HEADER}) \cup SrecDataRecords
                   \cup SrecRecordsOf({SREC_A16_COUNT, SREC_A24_COUNT}),
               SrecRecordsOf({SREC_A16_START, SREC_A24_START, SREC_A32_START}))
    /\ SrecRecordsOf({SREC_HEADER, SREC_A16_DATA, SREC_A24_DATA, SREC_A32_DATA,
                      SREC_A16_COUNT, SREC_A24_COUNT,
                      SREC_A16_START, SREC_A24_START, SREC_A32_START}) = 1..Len(ret)

\* C22: write_srec prints, in this order, one Header record if and only if the
\* header text is not empty; the Data records in ascending address order, all
\* of one type; a Record Count record if and only if it is asked for, with the
\* number of Data records, of type 5 when that number is below 65536; and one
\* Start Address record if and only if a start address is set, 0 included, of
\* type 10 minus the type of the Data records, as the last record.
C22_SrecRecordOrder ==
    (pc = "written" /\ call.op = "write_srec") =>
        /\ \A k \in 1..Len(ret) : SrecRecord(k).err = NoError
        /\ SrecLayout
        /\ Cardinality(SrecRecordsOf({SREC_HEADER})) = IF HeaderText # <<>> THEN 1 ELSE 0
        /\ \A k \in SrecRecordsOf({SREC_HEADER}) : SrecRecord(k).data = HeaderText
        /\ \A j \in SrecDataRecords, k \in SrecDataRecords :
               /\ SrecTypeOf(j) = SrecTypeOf(k)
               /\ j < k => ModelAddress(origin, SrecRecord(j).address)
                               < ModelAddress(origin, SrecRecord(k).address)
        /\ UNION {SegMap([addrlo |-> ModelAddress(origin, SrecRecord(k).address),
                          data |-> SrecRecord(k).data]) : k \in SrecDataRecords} = MapOf(segs)
        /\ SrecRecordsOf({SREC_A24_COUNT}) = {}
        /\ Cardinality(SrecRecordsOf({SREC_A16_COUNT})) = IF call.show_count THEN 1 ELSE 0
        /\ \A k \in SrecRecordsOf({SREC_A16_COUNT}) :
               SrecRecord(k).address = AddressOf(Cardinality(SrecDataRecords))
        /\ Cardinality(SrecRecordsOf({SREC_A16_START, SREC_A24_START, SREC_A32_START}))
               = IF start_address # None THEN 1 ELSE 0
        /\ \A k \in SrecRecordsOf({SREC_A16_START, SREC_A24_START, SREC_A32_START}) :
               /\ k = Len(ret)
               /\ SrecRecord(k).address = start_address
               /\ \A j \in SrecDataRecords : SrecTypeOf(k) = SREC_FLIP_VALUE - SrecTypeOf(j)

------------------------------------------------------------------------------
(* The address range of a Segment *)

\* the base address and the bytes that the call asks for, and they are outside
\* the address space
Requested ==
    IF call.op = "Segment" THEN [addrlo |-> call.addrlo, data |-> call.data]
    ELSE IF call.op = "addrlo" THEN [addrlo |-> call.addrlo, data |-> pre.self.data]
    ELSE [addrlo |-> pre.self.addrlo, data |-> call.data]
LastByte(seg) == seg.addrlo + (IF Len(seg.data) > 1 THEN Len(seg.data) - 1 ELSE 0)
OutOfRange(seg) == seg.addrlo < 0 \/ LastByte(seg) >= AddrLimit

\* C23: creating a Segment, and assigning a base address or bytes to one,
\* raises ValueError exactly when the base address is negative or the base
\* address plus max(len - 1, 0) is 2^32 or more; any other base address and
\* bytes are taken as they are, a last byte at 2^32 - 1 included.
C23_AddressRange ==
    call.op \in {"Segment", "addrlo", "data"} =>
        /\ err = IF OutOfRange(Requested) THEN ValueError ELSE NoError
        /\ pc = IF OutOfRange(Requested) THEN "failed" ELSE "object"
        /\ ~OutOfRange(Requested) => self = Requested

\* bytes were assigned to a Segment whose last byte is now the last address
C23_Witness ==
    /\ call.op = "data"
    /\ err = NoError
    /\ Len(self.data) > Len(pre.self.data)
    /\ LastByte(self) = AddrLimit - 1
    /\ self = Requested

------------------------------------------------------------------------------
(* The segments that split returns *)

------------------------------------------------------------------------------
(* The same segment added twice *)

------------------------------------------------------------------------------
(* A collision in Segments.add *)

\* the byte stored at address a when add was called, the addresses at which the
\* segment added holds another byte than the one stored, and add raised
\* DataCollisionError
StoredByte(a) == (CHOOSE p \in MapOf(pre.segs) : p[1] = a)[2]
DifferingFromStored ==
    {a \in Range(Arg) \cap Addresses(pre.segs) : StoredByte(a) # ByteOf(Arg, a)}
AddCollided ==
    pc = "done" /\ call.op = "add" /\ ~call.overwrite /\ err.name = "DataCollisionError"

\* C27: when Segments.add(seg, overwrite=false) raises DataCollisionError, the
\* address it reports is the lowest one at which the byte of seg differs from
\* the byte stored, also when seg overlaps several stored segments and differs
\* from more than one, and the old and new values are the byte stored and the
\* byte of seg at that address.
C27_LowestCollision ==
    AddCollided =>
        /\ DifferingFromStored # {}
        /\ err = DataCollisionError(SetMin(DifferingFromStored),
                                    StoredByte(SetMin(DifferingFromStored)),
                                    ByteOf(Arg, SetMin(DifferingFromStored)))

\* C30: when Segments.add(seg, overwrite=false) raises DataCollisionError, the
\* collection holds the segments and the bytes it held before the call.
C30_FailedAddKeepsCollection ==
    AddCollided => segs = pre.segs

\* the text decoded when its line k is taken out, what it decodes to, and the
\* lines with a record that the image has no use for: an Intel Hex End Of File
\* record, an S-record Record Count record, with the checksum of its bytes and
\* the count of bytes that its type has
Without(k) == SubSeq(call.text, 1, k - 1) \o SubSeq(call.text, k + 1, Len(call.text))
DecodedWithout(k) ==
    IF call.op = "read_srec" THEN ReadSrec(Without(k), call.overwrite, origin)
    ELSE ReadIhex(Without(k), call.overwrite, origin)
Skipped ==
    {k \in RecordLines \ WrongSums :
        /\ BytesOf(k)[1] = CountIn(k)
        /\ IF call.op = "read_srec"
           THEN TypeIn(k) \in {SREC_A16_COUNT, SREC_A24_COUNT}
                /\ CountIn(k) = EXPECTED_SREC_ADDRESS_LENGTH[TypeIn(k)] + 1
           ELSE TypeIn(k) = IHEX_END_OF_FILE /\ CountIn(k) = 0}
Counted == {k \in RecordLines : BytesOf(k)[1] = CountIn(k)}

StartLines ==
    {k \in RecordLines :
        TypeIn(k) \in {IHEX_START_SEGMENT_ADDRESS, IHEX_START_LINEAR_ADDRESS}}
LowWordIn(k) == 256 * BytesOf(k)[7] + BytesOf(k)[8]

\* C29: once an Intel Hex text is decoded, with a Start Segment Address record
\* of the words H and L as its last record that sets the start address, the
\* start address of the image is H * 16 + L.
C29_StartSegmentAddress ==
    (call.op = "read_ihex" /\ err = NoError) =>
        \A k \in StartLines :
            (TypeIn(k) = IHEX_START_SEGMENT_ADDRESS /\ \A j \in StartLines : j <= k) =>
                start_address = AddressOf(WordIn(k) * 16 + LowWordIn(k))

\* the span of the data of the image: one past the highest address that holds
\* data, less the lowest one
DataSpan ==
    IF Addresses(segs) = {} THEN 0
    ELSE SetMax(Addresses(segs)) + 1 - SetMin(Addresses(segs))

\* C26: a run of main with an image that holds data once the custom data is
\* written, whose custom data, fill and keep went through, fails with the error
\* of the span limit exactly when the span of the data is more than the limit
\* times the megabyte; otherwise the image is written.
C26_SpanLimit ==
    (/\ call.op = "main"
     /\ err.name \in {"none", "MemorySpanExceedsLimitError"}
     /\ (pre.segs # <<>> \/ call.args.write_data # <<>> \/ call.args.write_value # <<>>)) =>
        /\ err.name = "MemorySpanExceedsLimitError" <=> DataSpan > call.args.limit * MEGABYTE
        /\ DataSpan <= call.args.limit * MEGABYTE => pc = "written"

====
